---- MODULE Spec2Model ----
(***************************************************************************)
(* ccsync: one-way synchronisation of a source tree into a destination     *)
(* tree (crates/ccsync-core/src/sync).  The model follows one call of      *)
(* SyncEngine::sync_with_approver step by step: the loop over the scanned  *)
(* candidates, the comparison and the resolved action of each candidate,   *)
(* the approval callback, the executor and the final verdict, and then the *)
(* caller ToLocal::execute that classifies the verdict.                    *)
(*                                                                         *)
(* Paths and messages are strings, so prefix stripping and the substring   *)
(* tests of the code are computed on the characters.                       *)
(***************************************************************************)
EXTENDS Integers, Sequences, FiniteSets, TLC

VARIABLES
    fs,         \* the filesystem: absolute path -> node
    writable,   \* whether the destination root can be written (permissions)
    config,     \* Config: conflict_strategy, dry_run, ignore, include
    approver,   \* TRUE when sync_with_approver got Some(callback)
    pc,         \* position of the run
    files,      \* scan_result.files, in scan order
    idx,        \* loop position in files (1-based)
    cur,        \* rel_path / is_dir / dest_path / action of the candidate in hand
    result,     \* the SyncResult accumulator
    outcome,    \* what sync_with_approver returned
    exit_path,  \* which path ToLocal::execute took
    trace,      \* history: the operations performed, in order
    fs0,        \* history: the filesystem when the run started
    last,       \* history: the step just taken and the state it started from
    env,        \* the files and links a component is called on outside a run
    calls       \* history: the component calls made, with what they returned

vars == <<fs, writable, config, approver, pc, files, idx, cur, result,
          outcome, exit_path, trace, fs0, last, env, calls>>

\* the state of a run, and the state of the component calls
run_vars == <<fs, writable, config, approver, pc, files, idx, cur, result,
              outcome, exit_path, trace, fs0, last>>
call_vars == <<env, calls>>

----------------------------------------------------------------------------
(* Bounds *)

\* longest scan result explored
MaxCand == 2

\* the longest sequence of component calls on one scanner world
MaxCalls == 2

\* how often one prompt shows a diff and asks again
MaxDiffs == 2

----------------------------------------------------------------------------
(* Strings and paths *)

StartsWith(s, p) == Len(s) >= Len(p) /\ SubSeq(s, 1, Len(p)) = p

\* str::contains
Contains(s, needle) ==
    \E i \in 1..(Len(s) - Len(needle) + 1) : SubSeq(s, i, i + Len(needle) - 1) = needle

\* Path::strip_prefix: the base must be a whole-component prefix
strip_prefix(path, base) ==
    IF path = base THEN [ok |-> TRUE, rel |-> ""]
    ELSE IF StartsWith(path, base \o "/")
         THEN [ok |-> TRUE, rel |-> SubSeq(path, Len(base) + 2, Len(path))]
         ELSE [ok |-> FALSE, rel |-> ""]

\* Path::join with a relative path
join(base, rel) == base \o "/" \o rel

\* index of the last '/' of a path (0 when there is none)
LastSlash(path) ==
    LET S == {i \in 1..Len(path) : SubSeq(path, i, i) = "/"}
    IN IF S = {} THEN 0 ELSE CHOOSE i \in S : \A j \in S : j <= i

\* Path::parent
parent(path) == SubSeq(path, 1, LastSlash(path) - 1)

source_root == "/g"
dest_root == "/l"

\* relative paths of the candidates: a flat file and a marker-anchored directory
FileRel == "agents/a.md"
DirRel == "skills/User aborted"
RelPaths == {FileRel, DirRel}

\* canonical target of a symlink that leaves the source root
OutsidePath == "/x/b.md"

AbsPaths == {join(source_root, r) : r \in RelPaths} \cup {join(dest_root, r) : r \in RelPaths}

\* paths a scan can yield
ScanPaths == {join(source_root, r) : r \in RelPaths} \cup {OutsidePath}

----------------------------------------------------------------------------
(* Filesystem nodes *)

\* relative paths of the files below a marker-anchored directory: the marker
\* and a file one level deeper
Inner == {"SKILL.md", "scripts/x.sh"}

\* the order in which read_dir yields them
InnerOrder == <<"SKILL.md", "scripts/x.sh">>

\* a file below a directory: content (0 for no file), modification time, and
\* whether it can be opened for reading
Entry(d, t) == [data |-> d, mtime |-> t, readable |-> TRUE]
Unreadable(d, t) == [data |-> d, mtime |-> t, readable |-> FALSE]

NoEntry == Entry(0, 0)
NoEntries == [n \in Inner |-> NoEntry]

Absent == [kind |-> "absent", data |-> 0, mtime |-> 0, entries |-> NoEntries]
File(d, t) == [kind |-> "file", data |-> d, mtime |-> t, entries |-> NoEntries]
Dir(es) == [kind |-> "dir", data |-> 0, mtime |-> 0, entries |-> es]

\* Path::exists, Path::is_dir, Path::is_file
exists(f, p) == p \in DOMAIN f /\ f[p].kind # "absent"
is_dir(f, p) == p \in DOMAIN f /\ f[p].kind = "dir"
is_file(f, p) == p \in DOMAIN f /\ f[p].kind = "file"

\* modification times of the files present when the run starts
Times == {1, 2, 3}

\* modification time given to a file written during the run: later than all
Now == 1 + CHOOSE t \in Times : \A u \in Times : u <= t

\* the directory that holds p exists when some node below it does
parent_exists(f, p) ==
    \E q \in DOMAIN f : parent(q) = parent(p) /\ f[q].kind # "absent"

Ok(v) == [ok |-> TRUE, err |-> "", val |-> v]
Err(m) == [ok |-> FALSE, err |-> m, val |-> <<>>]

----------------------------------------------------------------------------
(* comparison: FileHasher, TimestampComparator, FileComparator,
   DirectoryComparator *)

\* FileHasher::hash: the digest of the bytes; it fails when the path cannot
\* be opened or read as a file.  Digests of different contents differ.
hash(f, p) ==
    IF ~exists(f, p) THEN Err("Failed to open file for hashing: " \o p)
    ELSE IF f[p].kind = "dir" THEN Err("Failed to read file: " \o p)
    ELSE Ok(<<"sha256", f[p].data>>)

\* TimestampComparator::get_modified_time
get_modified_time(f, p) ==
    IF ~exists(f, p) THEN Err("Failed to read metadata for: " \o p)
    ELSE Ok(f[p].mtime)

\* is_newer, but equal modification times count as newer
is_newer_OrEqual(f, source, destination) ==
    LET s == get_modified_time(f, source)
        d == get_modified_time(f, destination)
    IN IF ~s.ok THEN s ELSE IF ~d.ok THEN d ELSE Ok(s.val >= d.val)

\* TimestampComparator::is_newer
is_newer(f, source, destination) ==
    LET s == get_modified_time(f, source)
        d == get_modified_time(f, destination)
    IN IF ~s.ok THEN s ELSE IF ~d.ok THEN d ELSE Ok(s.val > d.val)

Strategies == {"Fail", "Overwrite", "Skip", "Newer"}

Comparison(tag, newer, strategy) ==
    [tag |-> tag, source_newer |-> newer, strategy |-> strategy]

\* FileComparator::compare
FileCompare(f, source, destination, strategy) ==
    LET source_exists == exists(f, source)
        dest_exists == exists(f, destination)
    IN IF ~source_exists /\ ~dest_exists
       THEN Err("Neither source nor destination file exists: source=" \o source
                \o ", dest=" \o destination)
       ELSE IF source_exists /\ ~dest_exists
       THEN Ok(Comparison("SourceOnly", FALSE, "Fail"))
       ELSE IF ~source_exists /\ dest_exists
       THEN Ok(Comparison("DestinationOnly", FALSE, "Fail"))
       ELSE LET source_hash == hash(f, source)
                dest_hash == hash(f, destination)
            IN IF ~source_hash.ok THEN source_hash
               ELSE IF ~dest_hash.ok THEN dest_hash
               ELSE IF source_hash.val = dest_hash.val
               THEN Ok(Comparison("Identical", FALSE, "Fail"))
               ELSE LET source_newer == is_newer(f, source, destination)
                    IN IF ~source_newer.ok THEN source_newer
                       ELSE Ok(Comparison("Conflict", source_newer.val, strategy))

\* DirectoryComparator::collect_files: the relative paths of the files below dir
collect_files(f, dir) ==
    IF ~exists(f, dir) THEN Err("No such file or directory (os error 2)")
    ELSE IF f[dir].kind # "dir" THEN Err("Not a directory (os error 20)")
    ELSE Ok({n \in Inner : f[dir].entries[n].data # 0})

\* DirectoryComparator::compare, but every file under both roots is reported
\* as modified, those with equal content as unchanged too
DirCompare_AllModified(f, source, destination) ==
    LET source_files == collect_files(f, source)
        dest_files == IF exists(f, destination) THEN collect_files(f, destination)
                      ELSE Ok({})
    IN IF ~source_files.ok THEN source_files
       ELSE IF ~dest_files.ok THEN dest_files
       ELSE LET both == source_files.val \cap dest_files.val
                same(n) == f[source].entries[n].data = f[destination].entries[n].data
                unhashed == {n \in both : ~f[source].entries[n].readable
                                             \/ ~f[destination].entries[n].readable}
            IN IF unhashed # {}
               THEN Err("Failed to open file for hashing: "
                        \o join(source, CHOOSE n \in unhashed : TRUE))
               ELSE
               Ok([added |-> source_files.val \ dest_files.val,
                   modified |-> both,
                   removed |-> dest_files.val \ source_files.val,
                   unchanged |-> {n \in both : same(n)}])

\* DirectoryComparator::compare
DirCompare(f, source, destination) ==
    LET source_files == collect_files(f, source)
        dest_files == IF exists(f, destination) THEN collect_files(f, destination)
                      ELSE Ok({})
    IN IF ~source_files.ok THEN source_files
       ELSE IF ~dest_files.ok THEN dest_files
       ELSE LET both == source_files.val \cap dest_files.val
                same(n) == f[source].entries[n].data = f[destination].entries[n].data
                unhashed == {n \in both : ~f[source].entries[n].readable
                                             \/ ~f[destination].entries[n].readable}
            IN IF unhashed # {}
               THEN Err("Failed to open file for hashing: "
                        \o join(source, CHOOSE n \in unhashed : TRUE))
               ELSE
               Ok([added |-> source_files.val \ dest_files.val,
                   modified |-> {n \in both : ~same(n)},
                   removed |-> dest_files.val \ source_files.val,
                   unchanged |-> {n \in both : same(n)}])

\* DirectoryComparison::is_identical
is_identical(c) == c.added = {} /\ c.modified = {} /\ c.removed = {}

\* DirectoryComparator::find_newest_file: the modification time of the newest
\* file below dir, 0 standing for None
find_newest_file(f, dir) ==
    IF ~exists(f, dir) THEN Ok(0)
    ELSE LET files_ == collect_files(f, dir)
         IN IF ~files_.ok THEN files_
            ELSE IF files_.val = {} THEN Ok(0)
            ELSE Ok(CHOOSE t \in {f[dir].entries[n].mtime : n \in files_.val} :
                      \A n \in files_.val : f[dir].entries[n].mtime <= t)

\* is_source_newer, but equally new trees count as newer
is_source_newer_OrEqual(f, source, destination) ==
    LET source_newest == find_newest_file(f, source)
        dest_newest == find_newest_file(f, destination)
    IN IF ~source_newest.ok THEN source_newest
       ELSE IF ~dest_newest.ok THEN dest_newest
       ELSE IF source_newest.val # 0 /\ dest_newest.val # 0
       THEN Ok(source_newest.val >= dest_newest.val)
       ELSE IF source_newest.val # 0 THEN Ok(TRUE)
       ELSE Ok(FALSE)

\* DirectoryComparator::is_source_newer
is_source_newer(f, source, destination) ==
    LET source_newest == find_newest_file(f, source)
        dest_newest == find_newest_file(f, destination)
    IN IF ~source_newest.ok THEN source_newest
       ELSE IF ~dest_newest.ok THEN dest_newest
       ELSE IF source_newest.val # 0 /\ dest_newest.val # 0
       THEN Ok(source_newest.val > dest_newest.val)
       ELSE IF source_newest.val # 0 THEN Ok(TRUE)
       ELSE Ok(FALSE)

----------------------------------------------------------------------------
(* sync/actions.rs: SyncAction and SyncActionResolver *)

Action(type, source, dest, strategy, newer, path, reason) ==
    [type |-> type, source |-> source, dest |-> dest, strategy |-> strategy,
     source_newer |-> newer, path |-> path, reason |-> reason]

Create(source, dest) == Action("Create", source, dest, "Fail", FALSE, "", "")
CreateDirectory(source, dest) == Action("CreateDirectory", source, dest, "Fail", FALSE, "", "")
SkipAction(path, reason) == Action("Skip", "", "", "Fail", FALSE, path, reason)
Conflict(source, dest, strategy, newer) ==
    Action("Conflict", source, dest, strategy, newer, "", "")
DirectoryConflict(source, dest, strategy, newer) ==
    Action("DirectoryConflict", source, dest, strategy, newer, "", "")
NoAction == Action("none", "", "", "Fail", FALSE, "", "")

\* resolve, but a file that exists only at the destination is created
resolve_DestinationOnlyCreates(source, dest, comparison) ==
    CASE comparison.tag = "Identical" -> SkipAction(source, "identical content")
      [] comparison.tag = "SourceOnly" -> Create(source, dest)
      [] comparison.tag = "DestinationOnly" -> Create(source, dest)
      [] comparison.tag = "Conflict" ->
            Conflict(source, dest, comparison.strategy, comparison.source_newer)

\* SyncActionResolver::resolve
resolve(source, dest, comparison) ==
    CASE comparison.tag = "Identical" -> SkipAction(source, "identical content")
      [] comparison.tag = "SourceOnly" -> Create(source, dest)
      [] comparison.tag = "DestinationOnly" -> SkipAction(dest, "source doesn't exist")
      [] comparison.tag = "Conflict" ->
            Conflict(source, dest, comparison.strategy, comparison.source_newer)

----------------------------------------------------------------------------
(* sync.rs: SyncResult *)

DefaultResult ==
    [created |-> 0, updated |-> 0, deleted |-> 0, skipped |-> 0,
     skip_reasons |-> <<>>, conflicts |-> 0, errors |-> <<>>]

\* *map.entry(key).or_insert(0) += 1
Bump(m, k) == IF k \in DOMAIN m THEN [m EXCEPT ![k] = @ + 1] ELSE m @@ (k :> 1)

\* HashMap lookup with 0 for a missing key
Count(m, k) == IF k \in DOMAIN m THEN m[k] ELSE 0

\* SyncResult::is_success
is_success(r) == r.errors = <<>>

----------------------------------------------------------------------------
(* sync/executor.rs: FileOperationExecutor *)

FsOk(f) == [ok |-> TRUE, err |-> "", fs |-> f]
FsErr(m, f) == [ok |-> FALSE, err |-> m, fs |-> f]

\* copy_file, but the source file is moved to the destination
copy_file_Moves(f, w, source, dest) ==
    IF ~parent_exists(f, dest) /\ ~w
    THEN FsErr("Failed to create directory: " \o parent(dest), f)
    ELSE IF ~w \/ ~is_file(f, source) \/ is_dir(f, dest)
    THEN FsErr("Failed to copy " \o source \o " to " \o dest, f)
    ELSE FsOk([f EXCEPT ![dest] = File(f[source].data, Now), ![source] = Absent])

\* copy_file, but an existing destination file is kept as it is
copy_file_KeepsExisting(f, w, source, dest) ==
    IF ~parent_exists(f, dest) /\ ~w
    THEN FsErr("Failed to create directory: " \o parent(dest), f)
    ELSE IF ~w \/ ~is_file(f, source) \/ is_dir(f, dest)
    THEN FsErr("Failed to copy " \o source \o " to " \o dest, f)
    ELSE IF is_file(f, dest) THEN FsOk(f)
    ELSE FsOk([f EXCEPT ![dest] = File(f[source].data, Now)])

\* FileOperationExecutor::copy_file: create the parent directory, then fs::copy
copy_file(f, w, source, dest) ==
    IF ~parent_exists(f, dest) /\ ~w
    THEN FsErr("Failed to create directory: " \o parent(dest), f)
    ELSE IF ~w \/ ~is_file(f, source) \/ is_dir(f, dest)
    THEN FsErr("Failed to copy " \o source \o " to " \o dest, f)
    ELSE FsOk([f EXCEPT ![dest] = File(f[source].data, Now)])

\* FileOperationExecutor::copy_directory_contents from the i-th file on: each
\* file below the source is copied in turn, and the first copy that fails ends
\* the call with the files before it already written
RECURSIVE copy_directory_contents(_, _, _, _, _)
copy_directory_contents(f, w, source, dest, i) ==
    IF i > Len(InnerOrder) THEN FsOk(f)
    ELSE LET n == InnerOrder[i]
             e == f[source].entries[n]
         IN IF e.data = 0 THEN copy_directory_contents(f, w, source, dest, i + 1)
            ELSE IF ~w \/ ~e.readable
            THEN FsErr("Failed to copy " \o join(source, n) \o " to " \o join(dest, n), f)
            ELSE copy_directory_contents(
                     [f EXCEPT ![dest].entries[n] = Entry(e.data, Now)],
                     w, source, dest, i + 1)

\* FileOperationExecutor::copy_directory: create the destination directory,
\* then copy every file below the source into it
copy_directory(f, w, source, dest) ==
    IF is_file(f, dest) \/ (~exists(f, dest) /\ ~w)
    THEN FsErr("Failed to create directory: " \o dest, f)
    ELSE LET made == IF exists(f, dest) THEN f ELSE [f EXCEPT ![dest] = Dir(NoEntries)]
         IN IF ~is_dir(f, source)
            THEN FsErr("Failed to read directory: " \o source, made)
            ELSE copy_directory_contents(made, w, source, dest, 1)

\* fs::remove_dir_all
remove_dir_all(f, w, dest) ==
    IF ~w THEN FsErr("Permission denied (os error 13)", f)
    ELSE FsOk([f EXCEPT ![dest] = Absent])

ExecOk(r, f) == [ok |-> TRUE, err |-> "", result |-> r, fs |-> f]
ExecErr(m, r, f) == [ok |-> FALSE, err |-> m, result |-> r, fs |-> f]

\* Counted, but a dry run counts nothing
Counted_DryRunSilent(dry_run, op, r, f, counter) ==
    IF dry_run THEN ExecOk(r, f)
    ELSE IF ~op.ok THEN ExecErr(op.err, r, op.fs)
    ELSE ExecOk([r EXCEPT ![counter] = @ + 1], op.fs)

\* the file operation of an action, suppressed in a dry run, then the counter
Counted(dry_run, op, r, f, counter) ==
    IF dry_run THEN ExecOk([r EXCEPT ![counter] = @ + 1], f)
    ELSE IF ~op.ok THEN ExecErr(op.err, r, op.fs)
    ELSE ExecOk([r EXCEPT ![counter] = @ + 1], op.fs)

\* handle_conflict, but strategy Skip counts the conflict as skipped
handle_conflict_SkipCountsSkipped(dry_run, f, w, source, dest, strategy, source_newer, r) ==
    CASE strategy = "Fail" ->
            ExecErr("Conflict: " \o source \o " <-> " \o dest
                    \o " (use --conflict to resolve)", r, f)
      [] strategy = "Overwrite" ->
            Counted(dry_run, copy_file(f, w, source, dest), r, f, "updated")
      [] strategy = "Skip" ->
            ExecOk([r EXCEPT !.skipped = @ + 1], f)
      [] strategy = "Newer" ->
            IF source_newer
            THEN Counted(dry_run, copy_file(f, w, source, dest), r, f, "updated")
            ELSE ExecOk([r EXCEPT !.skipped = @ + 1], f)

\* FileOperationExecutor::handle_conflict
handle_conflict(dry_run, f, w, source, dest, strategy, source_newer, r) ==
    CASE strategy = "Fail" ->
            ExecErr("Conflict: " \o source \o " <-> " \o dest
                    \o " (use --conflict to resolve)", r, f)
      [] strategy = "Overwrite" ->
            Counted(dry_run, copy_file(f, w, source, dest), r, f, "updated")
      [] strategy = "Skip" ->
            ExecOk([r EXCEPT !.conflicts = @ + 1], f)
      [] strategy = "Newer" ->
            IF source_newer
            THEN Counted(dry_run, copy_file(f, w, source, dest), r, f, "updated")
            ELSE ExecOk([r EXCEPT !.skipped = @ + 1], f)

\* replace_directory without the removal: the source is copied over the destination
replace_directory_Merge(f, w, source, dest) == copy_directory(f, w, source, dest)

\* "if dest.exists() { fs::remove_dir_all(dest)?; } Self::copy_directory(source, dest)?"
replace_directory(f, w, source, dest) ==
    LET removed == IF exists(f, dest) THEN remove_dir_all(f, w, dest) ELSE FsOk(f)
    IN IF ~removed.ok THEN removed
       ELSE copy_directory(removed.fs, w, source, dest)

\* handle_directory_conflict, but strategy Newer replaces the destination
\* whichever tree is newer
handle_directory_conflict_NewerAlways(dry_run, f, w, source, dest, strategy, source_newer, r) ==
    CASE strategy = "Fail" ->
            ExecErr("Directory conflict: " \o source \o " <-> " \o dest
                    \o " (use --conflict to resolve)", r, f)
      [] strategy = "Overwrite" ->
            Counted(dry_run, replace_directory(f, w, source, dest), r, f, "updated")
      [] strategy = "Skip" ->
            ExecOk([r EXCEPT !.conflicts = @ + 1], f)
      [] strategy = "Newer" ->
            Counted(dry_run, replace_directory(f, w, source, dest), r, f, "updated")

\* FileOperationExecutor::handle_directory_conflict
handle_directory_conflict(dry_run, f, w, source, dest, strategy, source_newer, r) ==
    CASE strategy = "Fail" ->
            ExecErr("Directory conflict: " \o source \o " <-> " \o dest
                    \o " (use --conflict to resolve)", r, f)
      [] strategy = "Overwrite" ->
            Counted(dry_run, replace_directory(f, w, source, dest), r, f, "updated")
      [] strategy = "Skip" ->
            ExecOk([r EXCEPT !.conflicts = @ + 1], f)
      [] strategy = "Newer" ->
            IF source_newer
            THEN Counted(dry_run, replace_directory(f, w, source, dest), r, f, "updated")
            ELSE ExecOk([r EXCEPT !.skipped = @ + 1], f)

\* FileOperationExecutor::execute
execute(dry_run, f, w, action, r) ==
    CASE action.type = "Create" ->
            Counted(dry_run, copy_file(f, w, action.source, action.dest), r, f, "created")
      [] action.type = "CreateDirectory" ->
            Counted(dry_run, copy_directory(f, w, action.source, action.dest), r, f, "created")
      [] action.type = "Skip" ->
            ExecOk([r EXCEPT !.skipped = @ + 1,
                             !.skip_reasons = Bump(@, action.reason)], f)
      [] action.type = "Conflict" ->
            handle_conflict(dry_run, f, w, action.source, action.dest,
                            action.strategy, action.source_newer, r)
      [] action.type = "DirectoryConflict" ->
            handle_directory_conflict(dry_run, f, w, action.source, action.dest,
                                      action.strategy, action.source_newer, r)

----------------------------------------------------------------------------
(* sync/orchestrator.rs: SyncEngine *)

\* SyncEngine::get_conflict_strategy
get_conflict_strategy(cfg) ==
    IF cfg.conflict_strategy = "None" THEN "Fail" ELSE cfg.conflict_strategy

\* SyncEngine::new: a matcher is compiled only when a pattern is configured
has_pattern_matcher(cfg) == cfg.ignore # {} \/ cfg.include # {}

\* should_include, but an include pattern re-admits nothing
should_include_IgnoreWins(cfg, rel) == rel \notin cfg.ignore

\* PatternMatcher::should_include: include patterns are added after the ignore
\* patterns as negations, so an include re-admits what an ignore drops
should_include(cfg, rel) == ~(rel \in cfg.ignore /\ rel \notin cfg.include)

\* SyncEngine::determine_sync_action
determine_sync_action(f, source_path, dest_path, isdir, conflict_strategy) ==
    IF isdir
    THEN IF exists(f, dest_path)
         THEN LET dir_comparison == DirCompare(f, source_path, dest_path)
              IN IF ~dir_comparison.ok THEN dir_comparison
                 ELSE IF is_identical(dir_comparison.val)
                 THEN Ok(SkipAction(source_path, "identical content"))
                 ELSE LET source_newer == is_source_newer(f, source_path, dest_path)
                      IN IF ~source_newer.ok THEN source_newer
                         ELSE Ok(DirectoryConflict(source_path, dest_path,
                                                   conflict_strategy, source_newer.val))
         ELSE Ok(CreateDirectory(source_path, dest_path))
    ELSE LET comparison == FileCompare(f, source_path, dest_path, conflict_strategy)
         IN IF ~comparison.ok THEN comparison
            ELSE Ok(resolve(source_path, dest_path, comparison.val))

\* what the approval callback can return: Ok(true), Ok(false), and two errors,
\* the user's quit and a failure to read the terminal
Answers == {"yes", "no", "quit", "ioerr"}

AbortMessage == "User aborted sync operation"

approver_error(answer) ==
    IF answer = "quit" THEN AbortMessage ELSE "Failed to read user input"

\* approved_action, but every approved conflict becomes Overwrite
approved_action_OverwritesAll(action) ==
    IF action.type \in {"Conflict", "DirectoryConflict"}
    THEN [action EXCEPT !.strategy = "Overwrite"]
    ELSE action

\* approved_action without the upgrade
approved_action_AsResolved(action) == action

\* the action an approved action is executed as: a Fail conflict becomes Overwrite
approved_action(action) ==
    IF action.type \in {"Conflict", "DirectoryConflict"} /\ action.strategy = "Fail"
    THEN [action EXCEPT !.strategy = "Overwrite"]
    ELSE action

\* apply_approval, but a declined action is handed on for execution
apply_approval_DeclineExecutes(action, has_approver, answer, r) ==
    IF has_approver
    THEN CASE answer \in {"yes", "no"} ->
                [tag |-> "Some", action |-> approved_action(action), result |-> r, err |-> ""]
           [] OTHER ->
                [tag |-> "Err", action |-> NoAction, result |-> r,
                 err |-> approver_error(answer)]
    ELSE [tag |-> "Some", action |-> action, result |-> r, err |-> ""]

\* apply_approval, but the upgrade is applied without an approver too
apply_approval_AlwaysUpgrades(action, has_approver, answer, r) ==
    IF has_approver
    THEN CASE answer = "yes" ->
                [tag |-> "Some", action |-> approved_action(action), result |-> r, err |-> ""]
           [] answer = "no" ->
                [tag |-> "None", action |-> NoAction,
                 result |-> [r EXCEPT !.skipped = @ + 1,
                                      !.skip_reasons = Bump(@, "user skipped")],
                 err |-> ""]
           [] OTHER ->
                [tag |-> "Err", action |-> NoAction, result |-> r,
                 err |-> approver_error(answer)]
    ELSE [tag |-> "Some", action |-> approved_action(action), result |-> r, err |-> ""]

\* SyncEngine::apply_approval, answer being what the callback returns when asked
apply_approval(action, has_approver, answer, r) ==
    IF has_approver
    THEN CASE answer = "yes" ->
                [tag |-> "Some", action |-> approved_action(action), result |-> r, err |-> ""]
           [] answer = "no" ->
                [tag |-> "None", action |-> NoAction,
                 result |-> [r EXCEPT !.skipped = @ + 1,
                                      !.skip_reasons = Bump(@, "user skipped")],
                 err |-> ""]
           [] OTHER ->
                [tag |-> "Err", action |-> NoAction, result |-> r,
                 err |-> approver_error(answer)]
    ELSE [tag |-> "Some", action |-> action, result |-> r, err |-> ""]

\* errors.join(sep)
RECURSIVE JoinWith(_, _)
JoinWith(msgs, sep) ==
    IF msgs = <<>> THEN ""
    ELSE IF Len(msgs) = 1 THEN msgs[1]
    ELSE msgs[1] \o sep \o JoinWith(Tail(msgs), sep)

\* the message of the failure that ends a run with recorded errors
FailureMessage(errors) ==
    "Sync failed with " \o ToString(Len(errors)) \o " error(s):\n  - "
    \o JoinWith(errors, "\n  - ")

NoOutcome == [tag |-> "none", result |-> DefaultResult, msg |-> ""]
ReturnOk(r) == [tag |-> "Ok", result |-> r, msg |-> ""]
ReturnErr(m) == [tag |-> "Err", result |-> DefaultResult, msg |-> m]

\* verdict, but the accumulator is returned whatever it recorded
verdict_AlwaysOk(r) == ReturnOk(r)

\* lines 134-148: a non-empty error list fails the run with the bundled
\* message, and only an accumulator without errors is returned
verdict(r) ==
    IF r.errors # <<>> THEN ReturnErr(FailureMessage(r.errors)) ELSE ReturnOk(r)

NoCur == [path |-> "", rel_path |-> "", is_dir |-> FALSE, dest_path |-> "",
          action |-> NoAction, to_execute |-> NoAction]

Event(op, i, info) == [op |-> op, i |-> i, info |-> info]

\* the step just taken: its name, the callback's answer (Approve), the action
\* resolved for the candidate and the action handed to the executor, and the
\* filesystem, accumulator and loop position before the step
Step(name, answer, action, executed) ==
    [step |-> name, answer |-> answer, action |-> action, executed |-> executed,
     fs |-> fs, result |-> result, idx |-> idx]

\* Recorded, but the error of a failed execution is dropped
Recorded_DropsError(e) == e.result

\* what the loop does with the executor's answer: an error is pushed
Recorded(e) ==
    IF e.ok THEN e.result ELSE [e.result EXCEPT !.errors = Append(@, e.err)]

\* needs_approval, but Skip actions are passed to apply_approval as well
needs_approval_Always(action) == TRUE

\* line 107: Skip actions are automatic decisions, every other action is
\* passed to apply_approval
needs_approval(action) == action.type # "Skip"

\* one pass of the loop body, lines 85-132, on the run state st = (fs, result,
\* outcome) for the candidate path; answer is what the callback returns if asked
Iteration(cfg, has_approver, w, st, path, answer) ==
    LET rel == strip_prefix(path, source_root)
        isdir == is_dir(st.fs, path)
        dest_path == join(dest_root, rel.rel)
        d == determine_sync_action(st.fs, path, dest_path, isdir,
                                   get_conflict_strategy(cfg))
        a == apply_approval(d.val, has_approver, answer, st.result)
        e == execute(cfg.dry_run, st.fs, w,
                     IF needs_approval(d.val) THEN a.action ELSE d.val, st.result)
    IN IF ~rel.ok
       THEN [st EXCEPT !.outcome = ReturnErr("Failed to strip prefix from " \o path)]
       ELSE IF has_pattern_matcher(cfg) /\ ~should_include(cfg, rel.rel)
       THEN [st EXCEPT !.result.skipped = @ + 1]
       ELSE IF ~d.ok THEN [st EXCEPT !.outcome = ReturnErr(d.err)]
       ELSE IF needs_approval(d.val) /\ a.tag = "None" THEN [st EXCEPT !.result = a.result]
       ELSE IF needs_approval(d.val) /\ a.tag = "Err"
       THEN [st EXCEPT !.outcome = ReturnErr(a.err)]
       ELSE [st EXCEPT !.result = Recorded(e), !.fs = e.fs]

\* sync_with_approver from candidate i on, lines 85-148: the loop, then the verdict
RECURSIVE RunFrom(_, _, _, _, _, _, _)
RunFrom(cfg, has_approver, w, scanned, st, i, answers) ==
    IF st.outcome.tag # "none" THEN st
    ELSE IF i > Len(scanned)
    THEN [st EXCEPT !.outcome = verdict(st.result)]
    ELSE RunFrom(cfg, has_approver, w, scanned,
                 Iteration(cfg, has_approver, w, st, scanned[i], answers[i]),
                 i + 1, answers)

\* SyncEngine::sync_with_approver on the filesystem f
Run(cfg, has_approver, w, scanned, f, answers) ==
    RunFrom(cfg, has_approver, w, scanned,
            [fs |-> f, result |-> DefaultResult, outcome |-> NoOutcome], 1, answers)

----------------------------------------------------------------------------
(* Initial states: the configuration, the scan result and the two trees *)

SrcFile == File(1, 2)
SrcDir == Dir([NoEntries EXCEPT !["SKILL.md"] = Entry(1, 2)])

\* the same directory with a second file, one level deeper
SrcDirNested ==
    Dir([NoEntries EXCEPT !["SKILL.md"] = Entry(1, 2), !["scripts/x.sh"] = Entry(2, 2)])

\* a subdirectory of skills/ that holds a file but not the marker
SrcDirNoMarker == Dir([NoEntries EXCEPT !["scripts/x.sh"] = Entry(2, 2)])

\* what the destination holds at the place of a directory that is no candidate
DstDirLeftAlone == Dir([NoEntries EXCEPT !["SKILL.md"] = Entry(2, 1)])

\* skills::scan, but every subdirectory is a candidate
is_skill_AnyDirectory(f, dir) == is_dir(f, dir)

\* skills::scan: a subdirectory of skills/ is a candidate when it holds a
\* SKILL.md file
is_skill(f, dir) == is_dir(f, dir) /\ f[dir].entries["SKILL.md"].data # 0

\* destination of the file candidate: absent, identical, differing and older,
\* differing and newer, or a directory in the file's place
DstFileNodes ==
    {Absent, File(1, 1), File(2, 1), File(2, 3), Dir(NoEntries)}

\* destination of the directory candidate: absent, identical, differing and
\* older, holding a newer file the source lacks, or a file in its place
DstDirNodes ==
    {Absent,
     Dir([NoEntries EXCEPT !["SKILL.md"] = Entry(1, 1)]),
     Dir([NoEntries EXCEPT !["SKILL.md"] = Entry(2, 1)]),
     Dir([NoEntries EXCEPT !["SKILL.md"] = Entry(1, 1),
                           !["scripts/x.sh"] = Entry(2, 3)]),
     File(2, 1)}

SeqsUpTo(S, n) == UNION {[1..k -> S] : k \in 0..n}

Range(q) == {q[i] : i \in 1..Len(q)}

Configs ==
    [conflict_strategy : Strategies \cup {"None"},
     dry_run : BOOLEAN,
     ignore : {{}, {FileRel}},
     include : {{}, {FileRel}}]

Init ==
    /\ files \in SeqsUpTo(ScanPaths, MaxCand)
    /\ fs \in [AbsPaths -> DstFileNodes \cup DstDirNodes
                              \cup {SrcFile, SrcDir, SrcDirNested, SrcDirNoMarker,
                                    DstDirLeftAlone}]
    /\ fs[join(source_root, FileRel)] =
          IF join(source_root, FileRel) \in Range(files) THEN SrcFile ELSE Absent
    /\ fs[join(source_root, DirRel)] \in {Absent, SrcDir, SrcDirNested, SrcDirNoMarker}
    /\ join(source_root, DirRel) \in Range(files)
          <=> is_skill(fs, join(source_root, DirRel))
    /\ fs[join(dest_root, FileRel)] \in
          IF join(source_root, FileRel) \in Range(files) THEN DstFileNodes ELSE {Absent}
    /\ fs[join(dest_root, DirRel)] \in
          IF join(source_root, DirRel) \in Range(files) THEN DstDirNodes
          ELSE IF exists(fs, join(source_root, DirRel)) THEN {DstDirLeftAlone}
          ELSE {Absent}
    /\ writable \in BOOLEAN
    /\ config \in Configs
    /\ approver \in BOOLEAN
    /\ pc = "idle"
    /\ idx = 0
    /\ cur = NoCur
    /\ result = DefaultResult
    /\ outcome = NoOutcome
    /\ exit_path = "none"
    /\ trace = <<>>
    /\ fs0 = fs
    /\ last = [step |-> "none", answer |-> "", action |-> NoAction,
               executed |-> NoAction, fs |-> fs, result |-> DefaultResult, idx |-> 0]
    /\ env = <<>>
    /\ calls = <<>>

----------------------------------------------------------------------------
(* The run *)

\* sync_with_approver, lines 74-83: a fresh accumulator, the scan, the executor
Sync ==
    /\ pc = "idle"
    /\ result' = DefaultResult
    /\ idx' = 1
    /\ pc' = "loop"
    /\ last' = Step("Sync", "", NoAction, NoAction)
    /\ UNCHANGED <<fs, writable, config, approver, files, cur, outcome,
                   exit_path, trace, fs0>>
    /\ UNCHANGED call_vars

\* loop head, lines 85-101: the relative path, the pattern filter, the
\* destination path
NextCandidate ==
    /\ pc = "loop"
    /\ idx <= Len(files)
    /\ LET path == files[idx]
           rel == strip_prefix(path, source_root)
           isdir == is_dir(fs, path)
       IN IF ~rel.ok
          THEN /\ outcome' = ReturnErr("Failed to strip prefix from " \o path)
               /\ pc' = "returned"
               /\ trace' = Append(trace, Event("strip_failed", idx, ""))
               /\ UNCHANGED <<result, idx, cur>>
          ELSE IF has_pattern_matcher(config) /\ ~should_include(config, rel.rel)
          THEN /\ result' = [result EXCEPT !.skipped = @ + 1]
               /\ idx' = idx + 1
               /\ trace' = Append(trace, Event("filtered", idx, ""))
               /\ UNCHANGED <<pc, outcome, cur>>
          ELSE /\ cur' = [NoCur EXCEPT !.path = path, !.rel_path = rel.rel,
                                       !.is_dir = isdir,
                                       !.dest_path = join(dest_root, rel.rel)]
               /\ pc' = "determine"
               /\ UNCHANGED <<result, idx, outcome, trace>>
    /\ last' = Step("NextCandidate", "", NoAction, NoAction)
    /\ UNCHANGED <<fs, writable, config, approver, files, exit_path, fs0>>
    /\ UNCHANGED call_vars

\* line 104: compare and resolve; an error is returned with `?`
Determine ==
    /\ pc = "determine"
    /\ LET d == determine_sync_action(fs, cur.path, cur.dest_path, cur.is_dir,
                                      get_conflict_strategy(config))
       IN IF ~d.ok
          THEN /\ outcome' = ReturnErr(d.err)
               /\ pc' = "returned"
               /\ trace' = Append(trace, Event("compare_failed", idx, ""))
               /\ UNCHANGED cur
          ELSE /\ cur' = [cur EXCEPT !.action = d.val]
               /\ pc' = IF needs_approval(d.val) THEN "approve" ELSE "skip"
               /\ trace' = Append(trace, Event("resolve", idx, d.val.type))
               /\ UNCHANGED outcome
    /\ last' = Step("Determine", "", NoAction, NoAction)
    /\ UNCHANGED <<fs, writable, config, approver, files, idx, result,
                   exit_path, fs0>>
    /\ UNCHANGED call_vars

\* lines 107-113: a Skip action is executed without approval
ExecuteSkip ==
    /\ pc = "skip"
    /\ LET e == execute(config.dry_run, fs, writable, cur.action, result)
       IN /\ result' = Recorded(e)
          /\ fs' = e.fs
    /\ idx' = idx + 1
    /\ pc' = "loop"
    /\ cur' = NoCur
    /\ trace' = Append(trace, Event("execute", idx, cur.action.type))
    /\ last' = Step("ExecuteSkip", "", cur.action, cur.action)
    /\ UNCHANGED <<writable, config, approver, files, outcome, exit_path, fs0>>
    /\ UNCHANGED call_vars

\* the three ways the loop goes on after apply_approval, lines 116-131
Approved(a) ==
    /\ cur' = [cur EXCEPT !.to_execute = a.action]
    /\ pc' = "execute"
    /\ UNCHANGED <<result, idx, outcome>>

Declined(a) ==
    /\ result' = a.result
    /\ idx' = idx + 1
    /\ pc' = "loop"
    /\ cur' = NoCur
    /\ UNCHANGED outcome

\* Aborted, but the loop goes on with the next candidate
Aborted_Continues(a) ==
    /\ idx' = idx + 1
    /\ pc' = "loop"
    /\ cur' = NoCur
    /\ UNCHANGED <<result, outcome>>

Aborted(a) ==
    /\ outcome' = ReturnErr(a.err)
    /\ pc' = "returned"
    /\ UNCHANGED <<result, idx, cur>>

\* line 116: apply_approval; the callback is asked when there is one
Approve ==
    /\ pc = "approve"
    /\ \E answer \in (IF approver THEN Answers ELSE {"unasked"}) :
          LET a == apply_approval(cur.action, approver, answer, result)
          IN /\ CASE a.tag = "Some" -> Approved(a)
                  [] a.tag = "None" -> Declined(a)
                  [] a.tag = "Err" -> Aborted(a)
             /\ trace' = IF approver THEN Append(trace, Event("approve", idx, answer))
                         ELSE trace
             /\ last' = Step("Approve", answer, cur.action, a.action)
    /\ UNCHANGED <<fs, writable, config, approver, files, exit_path, fs0>>
    /\ UNCHANGED call_vars

\* lines 119-122: the approved action is executed; an error is pushed
Execute ==
    /\ pc = "execute"
    /\ LET e == execute(config.dry_run, fs, writable, cur.to_execute, result)
       IN /\ result' = Recorded(e)
          /\ fs' = e.fs
    /\ idx' = idx + 1
    /\ pc' = "loop"
    /\ cur' = NoCur
    /\ trace' = Append(trace, Event("execute", idx, cur.to_execute.type))
    /\ last' = Step("Execute", "", cur.action, cur.to_execute)
    /\ UNCHANGED <<writable, config, approver, files, outcome, exit_path, fs0>>
    /\ UNCHANGED call_vars

\* lines 134-148: after the loop, a non-empty error list fails the run
Finish ==
    /\ pc = "loop"
    /\ idx > Len(files)
    /\ outcome' = verdict(result)
    /\ pc' = "returned"
    /\ last' = Step("Finish", "", NoAction, NoAction)
    /\ UNCHANGED <<fs, writable, config, approver, files, idx, cur, result,
                   exit_path, trace, fs0>>
    /\ UNCHANGED call_vars

\* ToLocal::execute, lines 47-78: the verdict is classified.  merge_cli_flags
\* always sets a conflict strategy, and the prompter is passed only when the
\* run is neither --yes-all nor a dry run.
classify(has_approver, out) ==
    IF out.tag = "Ok" THEN "summary"
    ELSE IF has_approver /\ Contains(out.msg, "User aborted") THEN "clean_exit"
    ELSE "error"

\* ToLocal::execute, lines 46-59: the prompter is passed as the approver only
\* when the run is neither --yes-all nor a dry run
to_local_approver(yes_all, dry_run) == ~(yes_all \/ dry_run)

ToLocalReturn ==
    /\ pc = "returned"
    /\ config.conflict_strategy # "None"
    /\ approver => ~config.dry_run
    /\ exit_path' = classify(approver, outcome)
    /\ pc' = "exited"
    /\ last' = Step("ToLocalReturn", "", NoAction, NoAction)
    /\ UNCHANGED <<fs, writable, config, approver, files, idx, cur, result,
                   outcome, trace, fs0>>
    /\ UNCHANGED call_vars

Next ==
    \/ Sync
    \/ NextCandidate
    \/ Determine
    \/ ExecuteSkip
    \/ Approve
    \/ Execute
    \/ Finish
    \/ ToLocalReturn

Spec == Init /\ [][Next]_vars

----------------------------------------------------------------------------
(* The comparators called on their own *)

\* the run variables while no run is in progress
RunIdle ==
    /\ fs = [p \in AbsPaths |-> Absent]
    /\ writable = FALSE
    /\ config = [conflict_strategy |-> "None", dry_run |-> FALSE,
                 ignore |-> {}, include |-> {}]
    /\ approver = FALSE
    /\ pc = "component"
    /\ files = <<>>
    /\ idx = 0
    /\ cur = NoCur
    /\ result = DefaultResult
    /\ outcome = NoOutcome
    /\ exit_path = "none"
    /\ trace = <<>>
    /\ fs0 = fs
    /\ last = [step |-> "none", answer |-> "", action |-> NoAction,
               executed |-> NoAction, fs |-> fs, result |-> DefaultResult, idx |-> 0]

\* what a path handed to FileComparator::compare can be: nothing, a file with
\* one of two contents and any modification time, or a directory
CmpFileNodes ==
    {Absent, Dir(NoEntries)} \cup {File(d, t) : d \in {1, 2}, t \in Times}

\* what a file below a compared directory can be
CmpEntries ==
    {NoEntry} \cup {Entry(d, t) : d \in {1, 2}, t \in {1, 2}}

\* what a root handed to DirectoryComparator::compare can be
CmpDirNodes ==
    {Absent, File(2, 1)} \cup {Dir(es) : es \in [Inner -> CmpEntries]}

\* the (source, destination) pairs the comparators are called on
CmpPairs ==
    {<<join(source_root, r), join(dest_root, r)>> : r \in RelPaths}

InitCompare ==
    /\ RunIdle
    /\ \/ \E a, b \in CmpFileNodes :
             env = [p \in AbsPaths |->
                      IF p = join(source_root, FileRel) THEN a
                      ELSE IF p = join(dest_root, FileRel) THEN b ELSE Absent]
       \/ \E a, b \in CmpDirNodes :
             env = [p \in AbsPaths |->
                      IF p = join(source_root, DirRel) THEN a
                      ELSE IF p = join(dest_root, DirRel) THEN b ELSE Absent]
    /\ calls = <<>>

\* FileComparator::compare(source, destination, strategy)
CallCompare ==
    /\ calls = <<>>
    /\ \E pair \in CmpPairs, strategy \in Strategies :
          calls' = <<[op |-> "compare", source |-> pair[1], dest |-> pair[2],
                      strategy |-> strategy,
                      ret |-> FileCompare(env, pair[1], pair[2], strategy)]>>
    /\ UNCHANGED env
    /\ UNCHANGED run_vars

\* DirectoryComparator::compare(source, destination)
CallDirectoryCompare ==
    /\ calls = <<>>
    /\ \E pair \in CmpPairs :
          calls' = <<[op |-> "directory_compare", source |-> pair[1], dest |-> pair[2],
                      ret |-> DirCompare(env, pair[1], pair[2])]>>
    /\ UNCHANGED env
    /\ UNCHANGED run_vars

\* SyncEngine::determine_sync_action as the loop calls it, is_dir being
\* file.path.is_dir()
CallDetermine ==
    /\ calls = <<>>
    /\ \E pair \in CmpPairs, strategy \in Strategies :
          calls' = <<[op |-> "determine", source |-> pair[1], dest |-> pair[2],
                      strategy |-> strategy, is_dir |-> is_dir(env, pair[1]),
                      ret |-> determine_sync_action(env, pair[1], pair[2],
                                                    is_dir(env, pair[1]), strategy)]>>
    /\ UNCHANGED env
    /\ UNCHANGED run_vars

\* DirectoryComparator::is_source_newer(source, destination)
CallIsSourceNewer ==
    /\ calls = <<>>
    /\ \E pair \in CmpPairs :
          calls' = <<[op |-> "is_source_newer", source |-> pair[1], dest |-> pair[2],
                      ret |-> is_source_newer(env, pair[1], pair[2])]>>
    /\ UNCHANGED env
    /\ UNCHANGED run_vars

NextCompare ==
    \/ CallCompare
    \/ CallDirectoryCompare
    \/ CallDetermine
    \/ CallIsSourceNewer

SpecCompare == InitCompare /\ [][NextCompare]_vars

----------------------------------------------------------------------------
(* scanner: SymlinkResolver and Scanner, called on a source tree with links *)

AgentFile == join(source_root, FileRel)
Link1 == "/g/agents/l1.md"
Link2 == "/g/agents/l2.md"
SkillDir == join(source_root, DirRel)
CommandFile == "/g/commands/c.md"
NoSuchPath == "/nonexistent/file.md"

LinkPaths == {Link1, Link2}
AgentEntries == <<AgentFile, Link1, Link2>>
WorldPaths == {AgentFile, Link1, Link2, SkillDir, CommandFile, OutsidePath}
Subtrees == {"agents", "skills", "commands"}

Missing == [kind |-> "absent", target |-> ""]
RegularFile == [kind |-> "file", target |-> ""]
Directory == [kind |-> "dir", target |-> ""]
Link(t) == [kind |-> "symlink", target |-> t]

\* fs::symlink_metadata succeeds
present(nodes, p) == p \in DOMAIN nodes /\ nodes[p].kind # "absent"

\* the kernel follows a chain of links for a bounded number of hops (ELOOP
\* after that); a chain without a cycle has at most one hop per link
SymlinkHops == Cardinality(LinkPaths)

\* dunce::canonicalize: the path with every link followed; it fails when a
\* link of the chain dangles and when the chain does not end
RECURSIVE canonicalize(_, _, _)
canonicalize(nodes, p, hops) ==
    IF ~present(nodes, p) THEN Err("No such file or directory (os error 2)")
    ELSE IF nodes[p].kind # "symlink" THEN Ok(p)
    ELSE IF hops = 0 THEN Err("Too many levels of symbolic links (os error 40)")
    ELSE canonicalize(nodes, nodes[p].target, hops - 1)

\* ResolvedPath
Regular(p) == [variant |-> "Regular", path |-> p]
Symlink(p) == [variant |-> "Symlink", path |-> p]
Resolved(p) == [variant |-> "Resolved", path |-> p]

\* the visited set of a call that carries over the targets of earlier calls
visited_at_call_Carried(history) ==
    {history[k].ret.val.path :
        k \in {j \in 1..Len(history) :
                  history[j].op = "resolve" /\ history[j].ret.ok
                     /\ history[j].ret.val.variant = "Resolved"}}

\* "let mut visited = HashSet::new()": the visited set a call starts with,
\* whatever calls the resolver served before
visited_at_call(history) == {}

\* SymlinkResolver::resolve_symlink_chain, the loop from its hop current on
RECURSIVE resolve_symlink_chain(_, _, _, _)
resolve_symlink_chain(nodes, path, current, visited) ==
    LET canonical == canonicalize(nodes, current, SymlinkHops)
    IN IF ~canonical.ok
       THEN IF present(nodes, current) /\ nodes[current].kind = "symlink"
            THEN Err("Broken symlink: " \o path \o " -> " \o nodes[current].target)
            ELSE Err("Failed to read symlink " \o current)
       ELSE IF canonical.val \in visited
       THEN Err("Symlink loop detected: " \o path)
       ELSE IF nodes[canonical.val].kind # "symlink"
       THEN Ok(Resolved(canonical.val))
       ELSE resolve_symlink_chain(nodes, path, canonical.val,
                                  visited \cup {canonical.val})

\* SymlinkResolver::resolve; history holds the calls the resolver served before
symlink_resolve(w, path, history) ==
    IF ~present(w.nodes, path)
    THEN Err("Failed to read metadata for " \o path)
    ELSE IF w.nodes[path].kind # "symlink" THEN Ok(Regular(path))
    ELSE IF w.preserve THEN Ok(Symlink(path))
    ELSE resolve_symlink_chain(w.nodes, path, path, visited_at_call(history))

\* Path::is_file and Path::is_dir follow links
follows_to(nodes, p, kind) ==
    LET c == canonicalize(nodes, p, SymlinkHops)
    IN c.ok /\ nodes[c.val].kind = kind

\* agents::scan, skills::scan, commands::scan on a readable subtree
subtree_scan(w, sub) ==
    CASE sub = "agents" ->
            SelectSeq(AgentEntries, LAMBDA p : follows_to(w.nodes, p, "file"))
      [] sub = "skills" ->
            SelectSeq(<<SkillDir>>, LAMBDA p : follows_to(w.nodes, p, "dir"))
      [] sub = "commands" ->
            SelectSeq(<<CommandFile>>, LAMBDA p : w.nodes[p].kind = "file")

\* Scanner::scan_directory
scan_directory(w, sub) ==
    IF w.subtree[sub] = "missing" THEN Ok(<<>>)
    ELSE IF w.subtree[sub] = "unreadable" THEN Err("Permission denied (os error 13)")
    ELSE Ok(subtree_scan(w, sub))

\* the second loop of Scanner::scan: every listed file passes the filter (a
\* FileFilter without patterns includes everything) and the resolver
RECURSIVE resolve_files(_, _, _, _)
resolve_files(w, listed, i, acc) ==
    IF i > Len(listed) THEN acc
    ELSE LET r == symlink_resolve(w, listed[i], acc.history)
             h == Append(acc.history, [op |-> "resolve", path |-> listed[i], ret |-> r])
         IN resolve_files(w, listed, i + 1,
               IF r.ok
               THEN [acc EXCEPT !.files = Append(@, r.val.path), !.history = h]
               ELSE [acc EXCEPT !.warnings =
                                    Append(@, "Symlink resolution failed: " \o r.err),
                                !.history = h])

\* the first part of Scanner::scan: the three subtrees in turn
RECURSIVE scan_subtrees(_, _, _, _)
scan_subtrees(w, subs, i, acc) ==
    IF i > Len(subs) THEN acc
    ELSE LET d == scan_directory(w, subs[i])
         IN scan_subtrees(w, subs, i + 1,
               IF d.ok THEN [acc EXCEPT !.files = @ \o d.val]
               ELSE [acc EXCEPT !.warnings =
                        Append(@, "Failed to scan " \o subs[i] \o " directory: " \o d.err)])

\* Scanner::scan
scan(w) ==
    LET listed == scan_subtrees(w, <<"agents", "skills", "commands">>, 1,
                                [files |-> <<>>, warnings |-> <<>>])
        resolved == resolve_files(w, listed.files, 1,
                                  [files |-> <<>>, warnings |-> listed.warnings,
                                   history |-> <<>>])
    IN [files |-> resolved.files, warnings |-> resolved.warnings]

\* what a link can point to
LinkTargets == {AgentFile, Link1, Link2, OutsidePath, NoSuchPath}

SubtreeStates == {"missing", "unreadable", "ok"}

\* the worlds: each subtree missing, unreadable or readable; below a readable
\* agents/ a file and two links that may point to it, to each other, to
\* themselves, out of the tree or nowhere
ScannerWorlds ==
    {w \in [nodes : [WorldPaths -> {Missing, RegularFile, Directory}
                                      \cup {Link(t) : t \in LinkTargets}],
            subtree : [Subtrees -> SubtreeStates],
            preserve : BOOLEAN] :
        /\ w.nodes[OutsidePath] = RegularFile
        /\ w.nodes[SkillDir] = IF w.subtree["skills"] = "ok" THEN Directory ELSE Missing
        /\ w.nodes[CommandFile] =
              IF w.subtree["commands"] = "ok" THEN RegularFile ELSE Missing
        /\ w.nodes[AgentFile] \in {Missing, RegularFile}
        /\ \A l \in LinkPaths : w.nodes[l].kind \in {"absent", "symlink"}
        /\ w.subtree["agents"] # "ok" =>
              \A p \in {AgentFile, Link1, Link2} : w.nodes[p] = Missing}

InitScanner ==
    /\ RunIdle
    /\ env \in ScannerWorlds
    /\ calls = <<>>

\* SymlinkResolver::resolve(path) on the resolver of this world
ResolveCall ==
    /\ Len(calls) < MaxCalls
    /\ \E path \in {AgentFile, Link1, Link2} :
          calls' = Append(calls, [op |-> "resolve", path |-> path,
                                  ret |-> symlink_resolve(env, path, calls)])
    /\ UNCHANGED env
    /\ UNCHANGED run_vars

\* Scanner::scan(base_path)
ScanCall ==
    /\ Len(calls) < MaxCalls
    /\ calls' = Append(calls, [op |-> "scan", ret |-> scan(env)])
    /\ UNCHANGED env
    /\ UNCHANGED run_vars

NextScanner ==
    \/ ResolveCall
    \/ ScanCall

SpecScanner == InitScanner /\ [][NextScanner]_vars

----------------------------------------------------------------------------
(* The executor called on its own, on trees with files that cannot be read *)

\* a source skill directory whose supporting file cannot be opened
SrcDirUnreadable ==
    Dir([NoEntries EXCEPT !["SKILL.md"] = Entry(1, 2),
                          !["scripts/x.sh"] = Unreadable(2, 2)])

\* the trees, whether the destination can be written, and the dry-run flag
\* the executor was built with
ExecutorWorlds ==
    {w \in [fs : [AbsPaths -> DstFileNodes \cup DstDirNodes
                                \cup {SrcFile, SrcDir, SrcDirNested, SrcDirUnreadable}],
            writable : BOOLEAN,
            dry_run : BOOLEAN] :
        /\ w.fs[join(source_root, FileRel)] \in {Absent, SrcFile}
        /\ w.fs[join(source_root, DirRel)] \in
              {Absent, SrcDir, SrcDirNested, SrcDirUnreadable}
        /\ w.fs[join(dest_root, FileRel)] \in DstFileNodes
        /\ w.fs[join(dest_root, DirRel)] \in DstDirNodes}

InitExecutor ==
    /\ RunIdle
    /\ env \in ExecutorWorlds
    /\ calls = <<>>

\* FileOperationExecutor::execute on the action resolved for a candidate, as
\* resolved or as an approval rewrites it, with a fresh accumulator; the call
\* leaves the trees as the next call finds them
CallExecute ==
    /\ Len(calls) < MaxCalls
    /\ \E r \in RelPaths, strategy \in Strategies, approved \in BOOLEAN :
          LET source == join(source_root, r)
              dest == join(dest_root, r)
              d == determine_sync_action(env.fs, source, dest,
                                         is_dir(env.fs, source), strategy)
              action == IF approved THEN approved_action(d.val) ELSE d.val
              e == execute(env.dry_run, env.fs, env.writable, action, DefaultResult)
          IN /\ exists(env.fs, source)
             /\ d.ok
             /\ calls' = Append(calls, [op |-> "execute", action |-> action,
                                        before |-> env.fs, ret |-> e])
             /\ env' = [env EXCEPT !.fs = e.fs]
    /\ UNCHANGED run_vars

NextExecutor == CallExecute

SpecExecutor == InitExecutor /\ [][NextExecutor]_vars

----------------------------------------------------------------------------
(* interactive.rs: InteractivePrompter, one session of prompt() calls *)

SessionDecisions == {"AskEach", "ApproveAll", "SkipAll"}

\* the keys a user presses: the seven the prompt names, Enter and another key
Keys == {"y", "n", "a", "s", "d", "c", "q", "\n", "x"}

\* InteractivePrompter::show_prompt on one key: the choice it returns, or
\* Invalid when it asks for another key; c is a choice only for a directory
\* conflict, and Enter stands for no
show_prompt(key, has_content_diff) ==
    CASE key = "y" -> "Yes"
      [] key = "n" -> "No"
      [] key = "a" -> "All"
      [] key = "s" -> "None"
      [] key = "d" -> "Diff"
      [] key = "c" /\ has_content_diff -> "ContentDiff"
      [] key = "q" -> "Quit"
      [] key = "\n" -> "No"
      [] OTHER -> "Invalid"

Asks == [done |-> FALSE, state |-> "AskEach", ret |-> Err("")]
Returns(state, ret) == [done |-> TRUE, state |-> state, ret |-> ret]

\* the head of prompt(): a latched session decision answers without asking
session_answer(session_state) ==
    CASE session_state = "ApproveAll" -> Returns(session_state, Ok(TRUE))
      [] session_state = "SkipAll" -> Returns(session_state, Ok(FALSE))
      [] session_state = "AskEach" -> Asks

\* on_choice, but All approves this action only
on_choice_AllNotLatched(session_state, choice) ==
    CASE choice = "Yes" -> Returns(session_state, Ok(TRUE))
      [] choice = "No" -> Returns(session_state, Ok(FALSE))
      [] choice = "All" -> Returns(session_state, Ok(TRUE))
      [] choice = "None" -> Returns("SkipAll", Ok(FALSE))
      [] choice \in {"Diff", "ContentDiff"} -> [Asks EXCEPT !.state = session_state]
      [] choice = "Quit" -> Returns(session_state, Err(AbortMessage))

\* the match on the user's choice in the loop of prompt()
on_choice(session_state, choice) ==
    CASE choice = "Yes" -> Returns(session_state, Ok(TRUE))
      [] choice = "No" -> Returns(session_state, Ok(FALSE))
      [] choice = "All" -> Returns("ApproveAll", Ok(TRUE))
      [] choice = "None" -> Returns("SkipAll", Ok(FALSE))
      [] choice \in {"Diff", "ContentDiff"} -> [Asks EXCEPT !.state = session_state]
      [] choice = "Quit" -> Returns(session_state, Err(AbortMessage))

\* the record of a finished prompt() call
PromptDone(action_type, before, asked, diffs, choice, r) ==
    [op |-> "prompt", action_type |-> action_type, before |-> before,
     asked |-> asked, diffs |-> diffs, choice |-> choice,
     after |-> r.state, ret |-> r.ret]

\* InteractivePrompter::new
InitPrompter ==
    /\ RunIdle
    /\ env = [session_state |-> "AskEach", pc |-> "idle", action_type |-> "",
              diffs |-> 0]
    /\ calls = <<>>

\* prompt(action) is called: it returns at once when a session decision is
\* latched, and otherwise describes the action and asks
Prompt ==
    /\ env.pc = "idle"
    /\ Len(calls) < MaxCalls
    /\ \E action_type \in {"Create", "Conflict", "DirectoryConflict"} :
          LET r == session_answer(env.session_state)
          IN IF r.done
             THEN /\ calls' = Append(calls, PromptDone(action_type, env.session_state,
                                                       FALSE, 0, "", r))
                  /\ UNCHANGED env
             ELSE /\ env' = [env EXCEPT !.pc = "asking", !.action_type = action_type,
                                        !.diffs = 0]
                  /\ UNCHANGED calls
    /\ UNCHANGED run_vars

\* the user presses a key at the prompt
KeyPressed ==
    /\ env.pc = "asking"
    /\ \E key \in Keys :
          LET choice == show_prompt(key, env.action_type = "DirectoryConflict")
              r == on_choice(env.session_state, choice)
          IN IF choice = "Invalid" THEN UNCHANGED <<env, calls>>
             ELSE IF ~r.done
             THEN /\ env.diffs < MaxDiffs
                  /\ env' = [env EXCEPT !.diffs = @ + 1, !.session_state = r.state]
                  /\ UNCHANGED calls
             ELSE /\ calls' = Append(calls, PromptDone(env.action_type,
                                                       env.session_state, TRUE,
                                                       env.diffs, choice, r))
                  /\ env' = [env EXCEPT !.pc = "idle", !.session_state = r.state,
                                        !.diffs = 0]
    /\ UNCHANGED run_vars

\* reading the key fails: show_prompt returns the error and prompt() passes it on
ReadFails ==
    /\ env.pc = "asking"
    /\ calls' = Append(calls, PromptDone(env.action_type, env.session_state, TRUE,
                                         env.diffs, "",
                                         Returns(env.session_state,
                                                 Err(approver_error("ioerr")))))
    /\ env' = [env EXCEPT !.pc = "idle", !.diffs = 0]
    /\ UNCHANGED run_vars

NextPrompter ==
    \/ Prompt
    \/ KeyPressed
    \/ ReadFails

SpecPrompter == InitPrompter /\ [][NextPrompter]_vars

----------------------------------------------------------------------------
(* Vocabulary of the properties *)

Returned == pc \in {"returned", "exited"}

\* the approval callback returned an error for some candidate
ApproverAborted ==
    \E k \in 1..Len(trace) : trace[k].op = "approve" /\ trace[k].info \in {"quit", "ioerr"}

\* the user chose quit at a prompt
UserQuit ==
    \E k \in 1..Len(trace) : trace[k].op = "approve" /\ trace[k].info = "quit"

\* events that end the handling of a candidate
Ends(ev) ==
    \/ ev.op \in {"filtered", "execute", "strip_failed", "compare_failed"}
    \/ ev.op = "approve" /\ ev.info # "yes"

\* how often candidate i was brought to an end
Attempts(i) == Cardinality({k \in 1..Len(trace) : trace[k].i = i /\ Ends(trace[k])})

\* the answers the callback gave, by candidate ("yes" where it was not asked)
TraceAnswers ==
    [i \in 1..Len(files) |->
        IF \E k \in 1..Len(trace) : trace[k].op = "approve" /\ trace[k].i = i
        THEN (CHOOSE ev \in Range(trace) : ev.op = "approve" /\ ev.i = i).info
        ELSE "yes"]

\* the stepwise run and the run as one function agree on every finished run
RunAgrees ==
    pc = "returned" =>
        LET r == Run(config, approver, writable, files, fs0, TraceAnswers)
        IN r.fs = fs /\ r.result = result /\ r.outcome = outcome

----------------------------------------------------------------------------
(* Error handling of the loop: C1, C2, C9 *)

\* candidates whose comparison or path computation failed
FatalFailures ==
    {k \in 1..Len(trace) : trace[k].op \in {"strip_failed", "compare_failed"}}

\* C1: a per-candidate error never stops the run early: when a run has
\* returned without an abort from the approval callback, every candidate has
\* been processed and every failure of a candidate is in the error list
C1_ErrorsNeverStopEarly ==
    (Returned /\ ~ApproverAborted) =>
        /\ \A i \in 1..Len(files) : Attempts(i) >= 1
        /\ Len(result.errors) >= Cardinality(FatalFailures)

\* C2: a run that is not aborted succeeds iff no error was recorded; a run with
\* recorded errors fails only after the last candidate, with the message that
\* bundles the count and every recorded message in order
C2_VerdictFromErrorList ==
    (Returned /\ ~ApproverAborted) =>
        /\ outcome.tag = "Ok" <=> result.errors = <<>>
        /\ outcome.tag = "Ok" => outcome.result = result
        /\ outcome.tag = "Err" =>
              /\ idx = Len(files) + 1
              /\ outcome.msg = FailureMessage(result.errors)
              /\ \A k \in 1..Len(result.errors) : Contains(outcome.msg, result.errors[k])

\* C9: in a run that is not aborted every scanned candidate is attempted
\* exactly once, one at a time and in scan order
C9_EachCandidateOnceInOrder ==
    (Returned /\ ~ApproverAborted) =>
        /\ \A i \in 1..Len(files) : Attempts(i) = 1
        /\ \A k \in 1..(Len(trace) - 1) : trace[k].i <= trace[k + 1].i

----------------------------------------------------------------------------
(* Abort: C4, C5 *)

\* C4: when the approval callback returns an error the run ends at once: the
\* abort is the last operation of the run, the candidate's action is not
\* executed, nothing is compared, asked or executed afterwards, the filesystem
\* and the accumulator stay as they were, and the run returns that error, also
\* when errors were recorded before
C4_AbortEndsRun ==
    ApproverAborted =>
        /\ Returned
        /\ trace[Len(trace)].op = "approve"
        /\ trace[Len(trace)].info \in {"quit", "ioerr"}
        /\ outcome = ReturnErr(IF trace[Len(trace)].info = "quit"
                               THEN "User aborted sync operation"
                               ELSE "Failed to read user input")
        /\ last.step \in {"Approve", "ToLocalReturn"}
        /\ fs = last.fs
        /\ result = last.result
        /\ idx = trace[Len(trace)].i
        /\ \A k \in 1..Len(trace) :
              trace[k].op = "execute" => trace[k].i < trace[Len(trace)].i

\* an abort at the first of two candidates: the second is never looked at
C4_Witness ==
    /\ ApproverAborted
    /\ pc = "returned"
    /\ idx < Len(files)
    /\ \A k \in 1..Len(trace) : trace[k].i = idx

\* C5: ToLocal::execute takes the clean exit iff the user aborted, and the error
\* path iff the run failed for another reason
C5_AbortDistinctFromFailure ==
    pc = "exited" =>
        /\ exit_path = "clean_exit" <=> UserQuit
        /\ exit_path = "error" <=> (outcome.tag = "Err" /\ ~UserQuit)

----------------------------------------------------------------------------
(* Approval: C6, C7 *)

ApprovalsOf(i) ==
    Cardinality({k \in 1..Len(trace) : trace[k].op = "approve" /\ trace[k].i = i})

OtherCountersKept(r, before) ==
    /\ r.created = before.created
    /\ r.updated = before.updated
    /\ r.deleted = before.deleted
    /\ r.conflicts = before.conflicts
    /\ r.errors = before.errors

\* C7: when the approver declines, the action is not executed: the filesystem
\* is as before, skipped and the reason "user skipped" grow by one, the other
\* counters, the other reasons and the error list are as before, and the loop
\* goes on with the next candidate
C7_DeclineSkipsWithoutExecuting ==
    (last.step = "Approve" /\ last.answer = "no") =>
        /\ fs = last.fs
        /\ result.skipped = last.result.skipped + 1
        /\ Count(result.skip_reasons, "user skipped")
              = Count(last.result.skip_reasons, "user skipped") + 1
        /\ \A reason \in (DOMAIN result.skip_reasons \cup DOMAIN last.result.skip_reasons)
              \ {"user skipped"} :
              Count(result.skip_reasons, reason) = Count(last.result.skip_reasons, reason)
        /\ OtherCountersKept(result, last.result)
        /\ pc = "loop"
        /\ idx = last.idx + 1
        /\ \A k \in 1..Len(trace) : trace[k].op = "execute" => trace[k].i # last.idx

\* a conflict declined after an earlier candidate was skipped as identical
C7_Witness ==
    /\ last.step = "Approve"
    /\ last.answer = "no"
    /\ last.action.type \in {"Conflict", "DirectoryConflict"}
    /\ last.result.skipped = 1

----------------------------------------------------------------------------
(* Fail conflicts with and without an approver: C3, C8 *)

IsFailConflict(action) ==
    action.type \in {"Conflict", "DirectoryConflict"} /\ action.strategy = "Fail"

\* the destination holds the content of the source
Replaced(f, source, dest) ==
    /\ f[dest].kind = f[source].kind
    /\ f[dest].data = f[source].data
    /\ \A n \in Inner : f[dest].entries[n].data = f[source].entries[n].data

CountersKept(r, before) ==
    /\ r.created = before.created
    /\ r.updated = before.updated
    /\ r.deleted = before.deleted
    /\ r.skipped = before.skipped
    /\ r.skip_reasons = before.skip_reasons
    /\ r.conflicts = before.conflicts

\* every candidate of the run was a Fail conflict that the approver approved
AllApprovedFailConflicts ==
    /\ approver
    /\ get_conflict_strategy(config) = "Fail"
    /\ Len(files) >= 1
    /\ \A i \in 1..Len(files) :
          /\ \E k \in 1..Len(trace) :
                /\ trace[k].op = "resolve"
                /\ trace[k].i = i
                /\ trace[k].info \in {"Conflict", "DirectoryConflict"}
          /\ Event("approve", i, "yes") \in Range(trace)

\* the executed action of an approved Fail conflict is the resolved action
\* with strategy Overwrite
UpgradedOnApproval ==
    (last.step \in {"Approve", "Execute"} /\ approver /\ IsFailConflict(last.action)
       /\ (last.step = "Approve" => last.answer = "yes")) =>
        last.executed = [last.action EXCEPT !.strategy = "Overwrite"]

ConfiguredStrategy ==
    IF config.conflict_strategy \in Strategies THEN config.conflict_strategy ELSE "Fail"

\* without an approver the resolved action is executed as it is, a conflict
\* under the configured strategy; a Fail conflict leaves the destination and
\* every counter as they were and records exactly one error; the run fails
UnapprovedFailConflict(mentions_file, mentions_dir) ==
    /\ (last.step = "Execute" /\ ~approver) =>
          /\ last.executed = last.action
          /\ last.action.type \in {"Conflict", "DirectoryConflict"} =>
                last.executed.strategy = ConfiguredStrategy
          /\ IsFailConflict(last.executed) =>
                /\ fs = last.fs
                /\ CountersKept(result, last.result)
                /\ Len(result.errors) = Len(last.result.errors) + 1
                /\ SubSeq(result.errors, 1, Len(last.result.errors)) = last.result.errors
                /\ Contains(result.errors[Len(result.errors)],
                            IF last.executed.type = "Conflict"
                            THEN mentions_file ELSE mentions_dir)
    /\ (Returned /\ ~approver /\ ConfiguredStrategy = "Fail"
          /\ \E k \in 1..Len(trace) :
                trace[k].op = "execute"
                   /\ trace[k].info \in {"Conflict", "DirectoryConflict"}) =>
          outcome.tag = "Err"

\* C8 as stated: the recorded error of a file or directory Fail conflict
\* mentions "Conflict"
C8_NoApproverFailConflict_AsStated ==
    UnapprovedFailConflict("Conflict", "Conflict")

\* C8 amended: without an approver every non-Skip action is executed under the
\* configured strategy (Fail when none) with no upgrade; a Fail conflict leaves
\* the destination unchanged, changes no counter, records exactly one error,
\* whose message mentions "Conflict" for a file and "Directory conflict" for a
\* directory, and the run fails
C8_NoApproverFailConflict ==
    UnapprovedFailConflict("Conflict", "Directory conflict")

\* a finished run without approver and without a configured strategy that
\* met a file conflict and a directory conflict
C8_Witness ==
    /\ pc = "returned"
    /\ ~approver
    /\ config.conflict_strategy = "None"
    /\ Event("execute", 1, "Conflict") \in Range(trace)
    /\ Event("execute", 2, "DirectoryConflict") \in Range(trace)
    /\ Len(result.errors) = 2

----------------------------------------------------------------------------
(* Dry run: C10 *)

\* the run without dry_run from the trees the run started from, the callback
\* answering each candidate as it did in this run
RealRun ==
    Run([config EXCEPT !.dry_run = FALSE], approver, writable, files, fs0, TraceAnswers)

SameCountersAndVerdict(twin) ==
    /\ result.created = twin.result.created
    /\ result.updated = twin.result.updated
    /\ result.skipped = twin.result.skipped
    /\ result.conflicts = twin.result.conflicts
    /\ outcome.tag = twin.outcome.tag

NoOperationFails(r) ==
    \A k \in 1..Len(r.result.errors) :
        \/ StartsWith(r.result.errors[k], "Conflict: ")
        \/ StartsWith(r.result.errors[k], "Directory conflict: ")

NoSharedCandidate ==
    \A i, j \in 1..Len(files) : i # j => files[i] # files[j]

----------------------------------------------------------------------------
(* Idempotence: C11 *)

\* a second call of sync on the trees the finished run left, whether or not
\* the destination can still be written
SecondSync(w) == Run(config, FALSE, w, files, fs, TraceAnswers)

\* C11: after a successful sync that is not a dry run, with strategy
\* Overwrite, a second sync of the unchanged trees updates nothing
C11_OverwriteIdempotent ==
    (pc = "returned" /\ ~approver /\ outcome.tag = "Ok" /\ ~config.dry_run
       /\ config.conflict_strategy = "Overwrite") =>
        \A w \in BOOLEAN : SecondSync(w).result.updated = 0

\* a successful Overwrite run that replaced a file and a directory, the
\* directory holding a file the source lacks
C11_Witness ==
    /\ pc = "returned"
    /\ ~approver
    /\ outcome.tag = "Ok"
    /\ ~config.dry_run
    /\ config.conflict_strategy = "Overwrite"
    /\ result.updated = 2
    /\ \E p \in DOMAIN fs0 : fs0[p].kind = "dir" /\ fs0[p].entries["scripts/x.sh"].data # 0
                               /\ StartsWith(p, dest_root)

----------------------------------------------------------------------------
(* Effects of the strategies: C12, C13, C14 *)

IsConflict(action) == action.type \in {"Conflict", "DirectoryConflict"}

\* the step just taken executed a conflict under the strategy
ExecutedConflictUnder(strategy) ==
    /\ last.step = "Execute"
    /\ IsConflict(last.executed)
    /\ last.executed.strategy = strategy

AllConflictsUnder(strategy) ==
    /\ config.conflict_strategy = strategy
    /\ Len(files) >= 1
    /\ \A i \in 1..Len(files) :
          \E k \in 1..Len(trace) :
             /\ trace[k].op = "execute"
             /\ trace[k].i = i
             /\ trace[k].info \in {"Conflict", "DirectoryConflict"}

\* C13: a conflict executed under Skip leaves the filesystem as it was and
\* conflicts grows by exactly one; skipped, skip_reasons, created, updated and
\* the error list are as before, and a run of such conflicts succeeds
C13_SkipCountsConflict ==
    /\ ExecutedConflictUnder("Skip") =>
          /\ fs = last.fs
          /\ result.conflicts = last.result.conflicts + 1
          /\ result.skipped = last.result.skipped
          /\ result.skip_reasons = last.result.skip_reasons
          /\ result.created = last.result.created
          /\ result.updated = last.result.updated
          /\ result.errors = last.result.errors
    /\ (pc = "returned" /\ ~ApproverAborted /\ AllConflictsUnder("Skip")) =>
          /\ outcome.tag = "Ok"
          /\ result.conflicts = Len(files)

\* a finished run of a file conflict and a directory conflict under Skip
C13_Witness ==
    /\ pc = "returned"
    /\ AllConflictsUnder("Skip")
    /\ Event("execute", 1, "Conflict") \in Range(trace)
    /\ Event("execute", 2, "DirectoryConflict") \in Range(trace)
    /\ result.conflicts = 2

\* what executing the same action under Overwrite does from the same state
AsOverwrite ==
    execute(config.dry_run, last.fs, writable,
            [last.executed EXCEPT !.strategy = "Overwrite"], last.result)

----------------------------------------------------------------------------
(* The comparators and the resolver: C15, C16, C17 *)

\* the relative paths of the files under a root of env
Under(root) ==
    IF env[root].kind = "dir" THEN {n \in Inner : env[root].entries[n].data # 0}
    ELSE {}

IsRoot(p) == env[p].kind = "dir"

\* C15: for directory roots (the destination may be missing) compare returns
\* four pairwise disjoint sets whose union is the set of relative paths under
\* either root: added holds the paths only under the source, removed those
\* only under the destination, unchanged those under both with equal content,
\* modified those under both with different content
C15_DirectoryComparisonPartitions ==
    \A k \in 1..Len(calls) :
        LET c == calls[k]
        IN (c.op = "directory_compare" /\ IsRoot(c.source)
               /\ (IsRoot(c.dest) \/ ~exists(env, c.dest))) =>
              /\ c.ret.ok
              /\ LET r == c.ret.val
                     S == Under(c.source)
                     D == Under(c.dest)
                 IN /\ r.added \cup r.modified \cup r.removed \cup r.unchanged = S \cup D
                    /\ r.added \cap r.modified = {}
                    /\ r.added \cap r.removed = {}
                    /\ r.added \cap r.unchanged = {}
                    /\ r.modified \cap r.removed = {}
                    /\ r.modified \cap r.unchanged = {}
                    /\ r.removed \cap r.unchanged = {}
                    /\ r.added = S \ D
                    /\ r.removed = D \ S
                    /\ r.unchanged = {n \in S \cap D :
                          env[c.source].entries[n].data = env[c.dest].entries[n].data}
                    /\ r.modified = {n \in S \cap D :
                          env[c.source].entries[n].data # env[c.dest].entries[n].data}

\* a comparison of two directories with an unchanged file and a modified file
C15_Witness ==
    /\ Len(calls) = 1
    /\ calls[1].op = "directory_compare"
    /\ calls[1].ret.ok
    /\ calls[1].ret.val.unchanged # {}
    /\ calls[1].ret.val.modified # {}

\* what compare returns when both paths exist: Identical iff the contents are
\* equal, otherwise Conflict with the recency of the source and the strategy
BothExistCompared(c) ==
    /\ c.ret.ok
    /\ c.ret.val.tag = "Identical" <=> env[c.source].data = env[c.dest].data
    /\ c.ret.val.tag # "Identical" =>
          /\ c.ret.val.tag = "Conflict"
          /\ c.ret.val.source_newer <=> env[c.source].mtime > env[c.dest].mtime
          /\ c.ret.val.strategy = c.strategy

OneExistsCompared(c) ==
    /\ (exists(env, c.source) /\ ~exists(env, c.dest)) =>
          c.ret.ok /\ c.ret.val.tag = "SourceOnly"
    /\ (~exists(env, c.source) /\ exists(env, c.dest)) =>
          c.ret.ok /\ c.ret.val.tag = "DestinationOnly"
    /\ (c.ret.ok /\ c.ret.val.tag = "SourceOnly") =>
          exists(env, c.source) /\ ~exists(env, c.dest)
    /\ (c.ret.ok /\ c.ret.val.tag = "DestinationOnly") =>
          ~exists(env, c.source) /\ exists(env, c.dest)

\* C16 as stated: compare fails iff neither path exists
C16_FileCompare_AsStated ==
    \A k \in 1..Len(calls) :
        LET c == calls[k]
        IN c.op = "compare" =>
              /\ ~c.ret.ok <=> (~exists(env, c.source) /\ ~exists(env, c.dest))
              /\ OneExistsCompared(c)
              /\ (exists(env, c.source) /\ exists(env, c.dest)) => BothExistCompared(c)

\* C16 amended: compare fails iff neither path exists or both exist and one
\* of them is not a regular file; it returns SourceOnly iff only the source
\* exists and DestinationOnly iff only the destination exists; for two regular
\* files it returns Identical iff the contents are equal, whatever the
\* modification times, and otherwise Conflict whose source_newer is true
\* exactly when the source's modification time is strictly later and whose
\* strategy is the caller's
C16_FileCompare ==
    \A k \in 1..Len(calls) :
        LET c == calls[k]
        IN c.op = "compare" =>
              /\ ~c.ret.ok <=>
                    \/ ~exists(env, c.source) /\ ~exists(env, c.dest)
                    \/ /\ exists(env, c.source)
                       /\ exists(env, c.dest)
                       /\ ~(is_file(env, c.source) /\ is_file(env, c.dest))
              /\ OneExistsCompared(c)
              /\ (is_file(env, c.source) /\ is_file(env, c.dest)) => BothExistCompared(c)

\* a comparison of two files with different contents and equal modification
\* times under strategy Newer
C16_Witness ==
    /\ Len(calls) = 1
    /\ calls[1].op = "compare"
    /\ calls[1].strategy = "Newer"
    /\ is_file(env, calls[1].source)
    /\ is_file(env, calls[1].dest)
    /\ env[calls[1].source].data # env[calls[1].dest].data
    /\ env[calls[1].source].mtime = env[calls[1].dest].mtime
    /\ calls[1].ret.ok

\* C17: the action is determined by the comparison.  File: Identical gives
\* Skip("identical content"), SourceOnly gives Create, DestinationOnly gives
\* Skip("source doesn't exist"), Conflict gives Conflict with the strategy and
\* source_newer of the comparison.  Directory: an absent destination gives
\* CreateDirectory, an identical comparison gives Skip("identical content"),
\* any other comparison gives DirectoryConflict with the run's strategy
C17_ActionFromComparison ==
    \A k \in 1..Len(calls) :
        LET c == calls[k]
            cmp == FileCompare(env, c.source, c.dest, c.strategy)
            dir == DirCompare(env, c.source, c.dest)
        IN c.op = "determine" =>
              /\ (~c.is_dir /\ cmp.ok) =>
                    /\ c.ret.ok
                    /\ cmp.val.tag = "Identical" =>
                          c.ret.val.type = "Skip" /\ c.ret.val.reason = "identical content"
                    /\ cmp.val.tag = "SourceOnly" =>
                          c.ret.val = Create(c.source, c.dest)
                    /\ cmp.val.tag = "DestinationOnly" =>
                          c.ret.val.type = "Skip" /\ c.ret.val.reason = "source doesn't exist"
                    /\ cmp.val.tag = "Conflict" =>
                          c.ret.val = Conflict(c.source, c.dest, cmp.val.strategy,
                                               cmp.val.source_newer)
              /\ (c.is_dir /\ ~exists(env, c.dest)) =>
                    c.ret = Ok(CreateDirectory(c.source, c.dest))
              /\ (c.is_dir /\ exists(env, c.dest) /\ dir.ok) =>
                    /\ c.ret.ok
                    /\ is_identical(dir.val) =>
                          c.ret.val.type = "Skip" /\ c.ret.val.reason = "identical content"
                    /\ ~is_identical(dir.val) =>
                          /\ c.ret.val.type = "DirectoryConflict"
                          /\ c.ret.val.source = c.source
                          /\ c.ret.val.dest = c.dest
                          /\ c.ret.val.strategy = c.strategy

\* the action determined for a file that exists only at the destination
C17_Witness ==
    /\ Len(calls) = 1
    /\ calls[1].op = "determine"
    /\ ~calls[1].is_dir
    /\ ~exists(env, calls[1].source)
    /\ exists(env, calls[1].dest)
    /\ calls[1].ret.ok

----------------------------------------------------------------------------
(* Symlink resolution and scanning *)

ResolveCalls == {k \in 1..Len(calls) : calls[k].op = "resolve"}
ScanCalls == {k \in 1..Len(calls) : calls[k].op = "scan"}

\* following the targets from link p leads back to p
RECURSIVE LeadsTo(_, _, _, _)
LeadsTo(nodes, p, q, hops) ==
    /\ hops > 0
    /\ present(nodes, p)
    /\ nodes[p].kind = "symlink"
    /\ \/ nodes[p].target = q
       \/ LeadsTo(nodes, nodes[p].target, q, hops - 1)

OnCycle(nodes, p) == LeadsTo(nodes, p, p, SymlinkHops)

\* C18: resolve with preserve off, called on a link of a symlink cycle, fails
\* with the symlink-loop error: not with the broken-symlink error and not
\* with a success.
C18_CycleFailsWithLoopError ==
    \A k \in ResolveCalls :
        (~env.preserve /\ OnCycle(env.nodes, calls[k].path)) =>
            /\ ~calls[k].ret.ok
            /\ Contains(calls[k].ret.err, "Symlink loop detected")
            /\ ~Contains(calls[k].ret.err, "Broken symlink")

\* the link p leads, over any number of links, to the existing regular file t
PointsTo(p, t) ==
    /\ present(env.nodes, p)
    /\ env.nodes[p].kind = "symlink"
    /\ canonicalize(env.nodes, p, SymlinkHops) = Ok(t)
    /\ env.nodes[t].kind = "file"

\* C19: the outcome of every resolve call of a sequence is the outcome the
\* same path has on a resolver that served no call before, and with preserve
\* off every link that leads to an existing file resolves to that file,
\* whatever was resolved before it.
C19_VisitedSetLocalToCall ==
    \A k \in ResolveCalls :
        /\ calls[k].ret = symlink_resolve(env, calls[k].path, <<>>)
        /\ \A t \in WorldPaths :
              (~env.preserve /\ PointsTo(calls[k].path, t)) =>
                  calls[k].ret = Ok(Resolved(t))

\* two different links to one existing file were resolved one after the
\* other, both to that file
C19_Witness ==
    /\ ~env.preserve
    /\ Len(calls) = 2
    /\ ResolveCalls = {1, 2}
    /\ calls[1].path # calls[2].path
    /\ \E t \in WorldPaths :
          /\ PointsTo(calls[1].path, t)
          /\ PointsTo(calls[2].path, t)
          /\ calls[1].ret = Ok(Resolved(t))
          /\ calls[2].ret = Ok(Resolved(t))

SubtreeRoot(sub) == join(source_root, sub)

BelowSubtree(p, sub) == StartsWith(p, SubtreeRoot(sub) \o "/")

\* the warning of a subtree that could not be scanned names the subtree; the
\* warning of a failed resolution names the link first
SubtreeWarning(sub) == "Failed to scan " \o sub \o " directory"
LinkWarning(p) == ": " \o p

WarningsOn(r, text) ==
    Cardinality({j \in 1..Len(r.warnings) : Contains(r.warnings[j], text)})

\* the candidates of a readable subtree that need no resolution
PlainCandidates(sub) ==
    {p \in WorldPaths :
        /\ BelowSubtree(p, sub)
        /\ env.subtree[sub] = "ok"
        /\ env.nodes[p].kind \in {"file", "dir"}}

\* a link below agents/ whose resolution fails: it dangles or it loops
FailingLink(p) ==
    /\ env.subtree["agents"] = "ok"
    /\ ~env.preserve
    /\ present(env.nodes, p)
    /\ env.nodes[p].kind = "symlink"
    /\ ~canonicalize(env.nodes, p, SymlinkHops).ok

\* C20: a scan returns; a missing subtree gives no candidate and no warning,
\* an unreadable subtree gives no candidate and one warning, a candidate
\* whose symlink resolution fails is dropped with one warning, and every
\* other candidate is returned.
C20_ScanWarnsAndContinues ==
    \A k \in ScanCalls :
        LET r == calls[k].ret
            returned == Range(r.files)
        IN /\ \A sub \in Subtrees :
                 /\ env.subtree[sub] = "missing" =>
                       /\ \A p \in returned : ~BelowSubtree(p, sub)
                       /\ WarningsOn(r, SubtreeWarning(sub)) = 0
                 /\ env.subtree[sub] = "unreadable" =>
                       /\ \A p \in returned : ~BelowSubtree(p, sub)
                       /\ WarningsOn(r, SubtreeWarning(sub)) = 1
                 /\ PlainCandidates(sub) \subseteq returned
           /\ \A p \in LinkPaths :
                 FailingLink(p) =>
                    /\ p \notin returned
                    /\ WarningsOn(r, LinkWarning(p)) = 1

----------------------------------------------------------------------------
(* Marker-anchored directories: C21 *)

SkillSource == join(source_root, DirRel)

\* the files below a directory of the filesystem f
FilesBelow(f, dir) == {n \in Inner : f[dir].entries[n].data # 0}

\* every file below the source directory is at the same relative path below
\* the destination, with the same content
CopiedBelow(f, source, dest) ==
    /\ is_dir(f, dest)
    /\ \A n \in FilesBelow(f, source) :
          f[dest].entries[n].data = f[source].entries[n].data

\* a subdirectory of skills/ is a candidate only with the marker file, and a
\* candidate directory that the destination lacks resolves to CreateDirectory
OneCreateDirectoryPerSkill ==
    /\ SkillSource \in Range(files) =>
          /\ is_dir(fs0, SkillSource)
          /\ "SKILL.md" \in FilesBelow(fs0, SkillSource)
    /\ (is_dir(fs0, SkillSource) /\ "SKILL.md" \notin FilesBelow(fs0, SkillSource)) =>
          SkillSource \notin Range(files)
    /\ (pc \in {"approve", "skip"} /\ cur.is_dir /\ ~exists(fs, cur.dest_path)) =>
          cur.action = CreateDirectory(cur.path, cur.dest_path)

CreatedOne ==
    /\ result.created = last.result.created + 1
    /\ result.updated = last.result.updated
    /\ result.skipped = last.result.skipped
    /\ result.conflicts = last.result.conflicts
    /\ result.errors = last.result.errors

----------------------------------------------------------------------------
(* The strategy of a run: C22 *)

\* the candidate in hand has a resolved action
Resolved_ == pc \in {"approve", "skip", "execute"}

\* the step just taken handed an approved action to the executor, or executed it
ApprovedStep ==
    /\ approver
    /\ \/ last.step = "Approve" /\ last.answer = "yes"
       \/ last.step = "Execute"

\* C22: every Conflict and DirectoryConflict resolved during a run carries the
\* configured strategy (Fail when none is configured), also after an upgrade
\* earlier in the run; approval rewrites an action only when it is a conflict
\* with strategy Fail, to the same action with strategy Overwrite; every
\* other approved action, and every action of a run without an approver, is
\* executed as it was resolved
C22_StrategyFixedForRun ==
    /\ (Resolved_ /\ IsConflict(cur.action)) =>
          cur.action.strategy = ConfiguredStrategy
    /\ (last.step = "Execute" /\ IsConflict(last.action)) =>
          last.action.strategy = ConfiguredStrategy
    /\ ApprovedStep =>
          last.executed = IF IsFailConflict(last.action)
                          THEN [last.action EXCEPT !.strategy = "Overwrite"]
                          ELSE last.action
    /\ (last.step \in {"Approve", "Execute", "ExecuteSkip"} /\ ~approver) =>
          last.executed = last.action

\* after an approved Fail conflict was executed as Overwrite, the conflict of
\* the next candidate carries Fail again
C22_Witness ==
    /\ approver
    /\ ConfiguredStrategy = "Fail"
    /\ pc = "approve"
    /\ idx = 2
    /\ IsConflict(cur.action)
    /\ cur.action.strategy = "Fail"
    /\ Event("approve", 1, "yes") \in Range(trace)
    /\ result.updated = 1

----------------------------------------------------------------------------
(* --yes-all: C23 *)

\* the run ToLocal::execute makes of the same trees when --yes-all is set
YesAllRun ==
    Run(config, to_local_approver(TRUE, config.dry_run), writable, files, fs0,
        TraceAnswers)

\* an interactive to-local run in which the user approved every action
InteractiveAllApproved ==
    /\ pc = "returned"
    /\ config.conflict_strategy # "None"
    /\ approver = to_local_approver(FALSE, config.dry_run)
    /\ approver
    /\ \A k \in 1..Len(trace) : trace[k].op = "approve" => trace[k].info = "yes"

\* C23: a to-local run with --yes-all ends with the counters, the destination
\* tree and the verdict of the interactive run of the same trees in which the
\* user approves every action
C23_YesAllAsApproveAll ==
    InteractiveAllApproved =>
        /\ YesAllRun.fs = fs
        /\ YesAllRun.result.created = result.created
        /\ YesAllRun.result.updated = result.updated
        /\ YesAllRun.result.skipped = result.skipped
        /\ YesAllRun.result.conflicts = result.conflicts
        /\ YesAllRun.outcome.tag = outcome.tag

----------------------------------------------------------------------------
(* The pattern filter: C24 *)

\* the candidate the loop head just looked at, as a path relative to the source
HeadRel ==
    IF \E r \in RelPaths : files[last.idx] = join(source_root, r)
    THEN CHOOSE r \in RelPaths : files[last.idx] = join(source_root, r)
    ELSE ""

\* the patterns exclude the path: an ignore pattern matches it and no include
\* pattern re-admits it
Excluded(rel) == rel \in config.ignore /\ rel \notin config.include

\* the loop head just passed over a candidate
Filtered == last.step = "NextCandidate" /\ idx = last.idx + 1

\* C24: a candidate whose relative path the patterns exclude is counted once in
\* skipped and is otherwise untouched: no comparison, no approval, no
\* execution, the filesystem and the skip reasons as before; a candidate the
\* patterns admit, also one re-admitted by an include pattern, goes on to the
\* comparison with the accumulator as it was
C24_FilteredCountedAndUntouched ==
    /\ Filtered =>
          /\ Excluded(HeadRel)
          /\ result.skipped = last.result.skipped + 1
          /\ result.skip_reasons = last.result.skip_reasons
          /\ OtherCountersKept(result, last.result)
          /\ fs = last.fs
          /\ \A k \in 1..Len(trace) : trace[k].i = last.idx => trace[k].op = "filtered"
    /\ (last.step = "NextCandidate" /\ HeadRel # "" /\ ~Excluded(HeadRel)) =>
          /\ pc = "determine"
          /\ cur.rel_path = HeadRel
          /\ result = last.result
    /\ (last.step = "NextCandidate" /\ Excluded(HeadRel)) => Filtered

\* the first of two candidates was passed over although its destination
\* differs from its source
C24_Witness ==
    /\ Filtered
    /\ last.idx = 1
    /\ Len(files) = 2
    /\ result.skipped = 1
    /\ result.skip_reasons = <<>>
    /\ exists(fs, join(dest_root, HeadRel))
    /\ fs[join(dest_root, HeadRel)].data # fs[join(source_root, HeadRel)].data

----------------------------------------------------------------------------
(* Atomicity of the executor: C25 *)

ExecuteCalls == {k \in 1..Len(calls) : calls[k].op = "execute"}

\* C25: whenever execute returns an error for an action, the destination path
\* of the action holds exactly what it held before the call; in particular a
\* directory Overwrite whose copy fails leaves the destination directory
\* neither removed nor partly copied
C25_FailedExecuteChangesNothing ==
    \A k \in ExecuteCalls :
        (~calls[k].ret.ok /\ calls[k].action.type # "Skip") =>
            calls[k].ret.fs[calls[k].action.dest] = calls[k].before[calls[k].action.dest]

----------------------------------------------------------------------------
(* The session decision of the prompter: C26 *)

PromptCalls == {k \in 1..Len(calls) : calls[k].op = "prompt"}

\* the session state a call finds is the one the call before it left
StateCarried ==
    \A k \in PromptCalls :
        calls[k].before = IF k = 1 THEN "AskEach" ELSE calls[k - 1].after

\* C26: the session decision starts as AskEach and latches.  A call that finds
\* ApproveAll returns approve without asking and one that finds SkipAll returns
\* decline without asking, both leaving the state as it is; a call that finds
\* AskEach asks, and All approves and leaves ApproveAll, None declines and
\* leaves SkipAll, Yes approves and No declines leaving AskEach, Quit returns
\* the "User aborted" error; a shown diff leaves the state as it is and the
\* same call goes on asking.
C26_SessionDecisionLatches ==
    /\ calls = <<>> => env.session_state = "AskEach"
    /\ env.pc = "asking" => env.session_state = "AskEach"
    /\ StateCarried
    /\ \A k \in PromptCalls :
          LET c == calls[k]
          IN /\ c.before = "ApproveAll" =>
                   c.ret = Ok(TRUE) /\ ~c.asked /\ c.after = "ApproveAll"
             /\ c.before = "SkipAll" =>
                   c.ret = Ok(FALSE) /\ ~c.asked /\ c.after = "SkipAll"
             /\ c.before = "AskEach" =>
                   /\ c.asked
                   /\ c.choice = "All" => c.ret = Ok(TRUE) /\ c.after = "ApproveAll"
                   /\ c.choice = "None" => c.ret = Ok(FALSE) /\ c.after = "SkipAll"
                   /\ c.choice = "Yes" => c.ret = Ok(TRUE) /\ c.after = "AskEach"
                   /\ c.choice = "No" => c.ret = Ok(FALSE) /\ c.after = "AskEach"
                   /\ c.choice = "Quit" =>
                         /\ ~c.ret.ok
                         /\ Contains(c.ret.err, "User aborted")
                         /\ c.after = "AskEach"
             /\ \A j \in PromptCalls :
                   (j < k /\ calls[j].choice = "All") => c.ret = Ok(TRUE) /\ ~c.asked
             /\ \A j \in PromptCalls :
                   (j < k /\ calls[j].choice = "None") => c.ret = Ok(FALSE) /\ ~c.asked

\* the user looked at a diff and answered All, and the next call approved
\* without asking
C26_Witness ==
    /\ Len(calls) = 2
    /\ calls[1].diffs >= 1
    /\ calls[1].choice = "All"
    /\ calls[2].ret = Ok(TRUE)
    /\ ~calls[2].asked
    /\ env.session_state = "ApproveAll"

----------------------------------------------------------------------------
(* The newer of two trees: C27 *)

\* the modification times of the files under a root
TimesUnder(root) == {env[root].entries[n].mtime : n \in Under(root)}

Newest(root) == CHOOSE t \in TimesUnder(root) : \A u \in TimesUnder(root) : u <= t

\* is_source_newer was called on the pair and returned a value
NewerCompared(c) == c.op = "is_source_newer" /\ c.ret.ok

\* when both trees hold files, the source is newer iff its newest file is
\* strictly newer than the newest file of the destination; an empty source is
\* not newer than a destination that holds files
NewestFileDecides(c) ==
    /\ (TimesUnder(c.source) # {} /\ TimesUnder(c.dest) # {}) =>
          c.ret.val = (Newest(c.source) > Newest(c.dest))
    /\ (TimesUnder(c.source) = {} /\ TimesUnder(c.dest) # {}) => c.ret.val = FALSE

\* C27 as stated: the newest files decide, an empty source tree is not newer
\* than a non-empty destination, and a source tree is newer than a wholly
\* absent destination
C27_SourceNewer_AsStated ==
    \A k \in 1..Len(calls) :
        NewerCompared(calls[k]) =>
            /\ NewestFileDecides(calls[k])
            /\ (IsRoot(calls[k].source) /\ env[calls[k].dest].kind = "absent") =>
                  calls[k].ret.val = TRUE

\* C27 amended: the same, a source tree that holds a file being newer than a
\* wholly absent destination
C27_SourceNewer ==
    \A k \in 1..Len(calls) :
        NewerCompared(calls[k]) =>
            /\ NewestFileDecides(calls[k])
            /\ (TimesUnder(calls[k].source) # {} /\ env[calls[k].dest].kind = "absent") =>
                  calls[k].ret.val = TRUE

\* two trees whose newest files are equally new: the source is not newer,
\* although it also holds an older file
C27_Witness ==
    /\ Len(calls) = 1
    /\ NewerCompared(calls[1])
    /\ Cardinality(TimesUnder(calls[1].source)) = 2
    /\ TimesUnder(calls[1].dest) # {}
    /\ Newest(calls[1].source) = Newest(calls[1].dest)
    /\ calls[1].ret.val = FALSE

----------------------------------------------------------------------------
(* Accounting: C28 *)

\* what the accumulator r accounts for
Accounted(r) == r.created + r.updated + r.skipped + r.conflicts + Len(r.errors)

\* the step just taken finished a candidate
CandidateDone == last.step # "none" /\ idx = last.idx + 1 /\ last.step # "Sync"

\* C28: while a run is under way and after it, created + updated + skipped +
\* conflicts + the number of recorded errors is the number of candidates
\* processed so far; finishing a candidate raises exactly one of the five by
\* exactly 1 and lowers none (a failed execution appends one error and
\* changes no counter), and deleted stays 0
C28_EveryCandidateAccountedOnce ==
    /\ result.deleted = 0
    /\ pc # "idle" => Accounted(result) = idx - 1
    /\ CandidateDone =>
          /\ Accounted(result) = Accounted(last.result) + 1
          /\ result.created >= last.result.created
          /\ result.updated >= last.result.updated
          /\ result.skipped >= last.result.skipped
          /\ result.conflicts >= last.result.conflicts
          /\ Len(result.errors) >= Len(last.result.errors)
          /\ Len(result.errors) > Len(last.result.errors) =>
                CountersKept(result, last.result)

\* two candidates processed, one by an execution that failed and one by a
\* creation
C28_Witness ==
    /\ pc = "loop"
    /\ idx = 3
    /\ Len(result.errors) = 1
    /\ result.created = 1
    /\ CandidateDone

----------------------------------------------------------------------------
(* What a run hands back: C29 *)

----------------------------------------------------------------------------
(* One-way sync: C30 *)

\* the path lies below the root
Below(p, root) == StartsWith(p, root \o "/")

\* the destination path belongs to a scanned candidate: it is dest_root joined
\* with the candidate's path relative to the source root
CandidateDestination(p) ==
    \E i \in 1..Len(files) :
        /\ Below(files[i], source_root)
        /\ Below(p, dest_root)
        /\ SubSeq(p, Len(dest_root) + 1, Len(p))
              = SubSeq(files[i], Len(source_root) + 1, Len(files[i]))

\* the destination directory of a scanned candidate lies below the directory
AboveCandidateDestination(d) ==
    \E i \in 1..Len(files) :
        /\ Below(files[i], source_root)
        /\ Below(dest_root \o SubSeq(files[i], Len(source_root) + 1, Len(files[i])), d)

\* directories the run has made: the parents of the paths present now whose
\* parent held nothing when the run started
MadeDirectories ==
    {parent(q) : q \in {q \in DOMAIN fs : exists(fs, q) /\ ~parent_exists(fs0, q)}}

\* every path below the source root is as it was, and every path that is not
\* as it was is the destination of a scanned candidate
SourceKeptDestinationOfCandidates ==
    \A p \in DOMAIN fs :
        /\ Below(p, source_root) => fs[p] = fs0[p]
        /\ fs[p] # fs0[p] => CandidateDestination(p)

\* C30 as stated: whatever the trees, the strategy, the answers and the
\* dry-run flag, a run changes nothing below the source root, and every path
\* it writes or removes, the directories it makes included, is the destination
\* of a scanned candidate
C30_OneWay_AsStated ==
    /\ SourceKeptDestinationOfCandidates
    /\ \A d \in MadeDirectories : CandidateDestination(d)

\* C30: whatever the trees, the strategy, the answers and the dry-run flag, a
\* run changes nothing below the source root, and every path it writes or
\* removes is the destination of a scanned candidate or a missing parent
\* directory of one, which it makes; other destination paths are as they were
C30_OneWay ==
    /\ SourceKeptDestinationOfCandidates
    /\ \A d \in MadeDirectories :
          CandidateDestination(d) \/ AboveCandidateDestination(d)

\* a finished run that made the missing parent directory of its candidate's
\* destination while the destination held a directory of no candidate
C30_Witness ==
    /\ pc = "returned"
    /\ result.created = 1
    /\ MadeDirectories # {}
    /\ \E p \in DOMAIN fs :
          /\ Below(p, dest_root)
          /\ exists(fs0, p)
          /\ fs[p] = fs0[p]
          /\ ~CandidateDestination(p)

====
